---------------------------- MODULE Spec2Model ----------------------------
(***************************************************************************)
(* Model of the query-routing and parameter-validation layer of the IoT    *)
(* telemetry read API (src/lambda_function.py, and its near-duplicate      *)
(* src/main.py).                                                           *)
(*                                                                         *)
(* Encoding of Python values.  Every Python value is a tuple of strings:   *)
(*   - a str is the 1-tuple of its text, Str("ok") = <<"ok">>;             *)
(*   - None is the empty tuple;                                            *)
(*   - any other value is a pair of a type name and the value's text, so   *)
(*     the int 5 is <<"int", "5">> and Decimal('21.5') <<"Decimal",        *)
(*     "21.5">>.                                                           *)
(* This keeps every pair of values comparable and makes isinstance(v, str) *)
(* a computation on the value.  The text of a str is a TLA+ string, a      *)
(* sequence of characters: Len, SubSeq, Head, Tail and \o apply to it.     *)
(***************************************************************************)
EXTENDS Integers, Sequences, FiniteSets, TLC

VARIABLES module, table, order, pc, event, fault, response, calls, vin, vout

vars == <<module, table, order, pc, event, fault, response, calls, vin, vout>>

(***************************************************************************)
(* Bounds of the model.                                                    *)
(***************************************************************************)
MaxNumLen == 3

MaxRecords == 3

\* The largest number of entries of a dict handed to validate_params alone
MaxParams == 3

\* The number of invocations that may be in flight at once
MaxInFlight == 2

\* The deepest nesting of dicts and lists in a body handed to create_response
\* alone, and the most entries of one dict or list of it
MaxDepth == 2

MaxItems == 2

(***************************************************************************)
(* Python built-ins used by the code.                                      *)
(***************************************************************************)
None == <<>>

Str(s) == <<s>>

isinstance_str(v) == Len(v) = 1

\* Python truthiness of None and of str values: `if x:`
truthy(v) == v # None /\ v # Str("")

CharAt(s, i) == SubSeq(s, i, i)

Digits == {"0", "1", "2", "3", "4", "5", "6", "7", "8", "9"}

IsDigit(c) == c \in Digits

DigitValues == [c \in Digits |-> (CHOOSE i \in 1..10 : CharAt("0123456789", i) = c) - 1]

DigitVal(c) == DigitValues[c]

\* str.count(c)
str_count(s, c) == Cardinality({i \in 1..Len(s) : CharAt(s, i) = c})

\* s.split(c), for an s that holds c exactly once
split_once(s, c) ==
    LET p == CHOOSE i \in 1..Len(s) : CharAt(s, i) = c
    IN  <<SubSeq(s, 1, p - 1), SubSeq(s, p + 1, Len(s))>>

IsSpace(c) == c = " "

RECURSIVE lstrip(_)
lstrip(s) == IF s # "" /\ IsSpace(Head(s)) THEN lstrip(Tail(s)) ELSE s

RECURSIVE rstrip(_)
rstrip(s) ==
    IF s # "" /\ IsSpace(CharAt(s, Len(s))) THEN rstrip(SubSeq(s, 1, Len(s) - 1)) ELSE s

\* str.strip()
strip(s) == rstrip(lstrip(s))

\* str.isdigit()
isdigit(s) == s # "" /\ \A i \in 1..Len(s) : IsDigit(CharAt(s, i))

\* str.endswith(suffix)
endswith(s, suffix) ==
    Len(s) >= Len(suffix) /\ SubSeq(s, Len(s) - Len(suffix) + 1, Len(s)) = suffix

\* str.replace(c, by), for a one-character c
RECURSIVE replace(_, _, _)
replace(s, c, by) ==
    IF s = "" THEN ""
    ELSE (IF Head(s) = c THEN by ELSE Head(s)) \o replace(Tail(s), c, by)

\* The value of a text of decimal digits and underscores, the underscores skipped
RECURSIVE DecValue(_)
DecValue(ds) ==
    IF ds = "" THEN 0
    ELSE IF CharAt(ds, Len(ds)) = "_" THEN DecValue(SubSeq(ds, 1, Len(ds) - 1))
    ELSE 10 * DecValue(SubSeq(ds, 1, Len(ds) - 1)) + DigitVal(CharAt(ds, Len(ds)))

\* An int literal after strip() and without its sign: digits, with single
\* underscores allowed between digits.
IntBody(s) ==
    LET t == strip(s)
    IN  IF t # "" /\ (Head(t) = "+" \/ Head(t) = "-") THEN Tail(t) ELSE t

IntNegative(s) == LET t == strip(s) IN t # "" /\ Head(t) = "-"

\* int(s) does not raise ValueError
int_parses(s) ==
    LET b == IntBody(s)
    IN  /\ b # ""
        /\ \A i \in 1..Len(b) : IsDigit(CharAt(b, i)) \/ CharAt(b, i) = "_"
        /\ IsDigit(Head(b)) /\ IsDigit(CharAt(b, Len(b)))
        /\ \A i \in 1..(Len(b) - 1) : ~(CharAt(b, i) = "_" /\ CharAt(b, i + 1) = "_")

\* int(s), for an s that parses
int_value(s) ==
    IF IntNegative(s) THEN 0 - DecValue(IntBody(s)) ELSE DecValue(IntBody(s))

lower_char(c) ==
    IF \E i \in 1..26 : CharAt("ABCDEFGHIJKLMNOPQRSTUVWXYZ", i) = c
    THEN CharAt("abcdefghijklmnopqrstuvwxyz",
                CHOOSE i \in 1..26 : CharAt("ABCDEFGHIJKLMNOPQRSTUVWXYZ", i) = c)
    ELSE c

\* str.lower()
RECURSIVE lower(_)
lower(s) == IF s = "" THEN "" ELSE lower_char(Head(s)) \o lower(Tail(s))

\* `sub in s` for two texts
contains(s, sub) ==
    \E i \in 0..(Len(s) - Len(sub)) : SubSeq(s, i + 1, i + Len(sub)) = sub

(***************************************************************************)
(* datetime.fromisoformat, as far as the code depends on it: whether it    *)
(* returns or raises ValueError.  The grammar is                          *)
(* YYYY-MM-DD[*HH[:MM[:SS]][+HH:MM[:SS]]], where * is any single           *)
(* character; fractional seconds and the basic (undelimited) formats do    *)
(* not occur in the inputs of this model and are left out.  The field      *)
(* ranges are those of the datetime and timezone constructors.             *)
(***************************************************************************)
TwoDigits(s, p) == p + 1 <= Len(s) /\ IsDigit(CharAt(s, p)) /\ IsDigit(CharAt(s, p + 1))

Num2(s, p) == 10 * DigitVal(CharAt(s, p)) + DigitVal(CharAt(s, p + 1))

IsLeap(y) == (y % 4 = 0 /\ y % 100 # 0) \/ y % 400 = 0

DaysInMonth(y, m) ==
    IF m = 2 THEN (IF IsLeap(y) THEN 29 ELSE 28)
    ELSE IF m \in {4, 6, 9, 11} THEN 30 ELSE 31

\* The text has the shape HH[:MM[:SS]]
hh_mm_ss_shape(t) ==
    \/ Len(t) = 2 /\ TwoDigits(t, 1)
    \/ Len(t) = 5 /\ TwoDigits(t, 1) /\ CharAt(t, 3) = ":" /\ TwoDigits(t, 4)
    \/ /\ Len(t) = 8 /\ TwoDigits(t, 1) /\ CharAt(t, 3) = ":" /\ TwoDigits(t, 4)
       /\ CharAt(t, 6) = ":" /\ TwoDigits(t, 7)

\* <<hour, minute, second>> of a text of that shape
hh_mm_ss(t) ==
    <<Num2(t, 1),
      IF Len(t) >= 5 THEN Num2(t, 4) ELSE 0,
      IF Len(t) >= 8 THEN Num2(t, 7) ELSE 0>>

iso_date_ok(d) ==
    /\ Len(d) = 10
    /\ TwoDigits(d, 1) /\ TwoDigits(d, 3) /\ CharAt(d, 5) = "-"
    /\ TwoDigits(d, 6) /\ CharAt(d, 8) = "-" /\ TwoDigits(d, 9)
    /\ LET y == 100 * Num2(d, 1) + Num2(d, 3)
           m == Num2(d, 6)
           dd == Num2(d, 9)
       IN  /\ 1 <= y /\ y <= 9999
           /\ 1 <= m /\ m <= 12
           /\ 1 <= dd /\ dd <= DaysInMonth(y, m)

iso_time_ok(t) ==
    LET signs == {i \in 1..Len(t) : CharAt(t, i) = "+" \/ CharAt(t, i) = "-"}
        tz_pos == IF signs = {} THEN 0 ELSE CHOOSE i \in signs : \A j \in signs : i <= j
        timestr == IF tz_pos = 0 THEN t ELSE SubSeq(t, 1, tz_pos - 1)
        tzstr == IF tz_pos = 0 THEN "" ELSE SubSeq(t, tz_pos + 1, Len(t))
    IN  /\ hh_mm_ss_shape(timestr)
        /\ LET c == hh_mm_ss(timestr)
           IN  c[1] <= 23 /\ c[2] <= 59 /\ c[3] <= 59
        /\ tz_pos # 0 =>
              /\ Len(tzstr) \in {5, 8}
              /\ hh_mm_ss_shape(tzstr)
              /\ LET z == hh_mm_ss(tzstr)
                 IN  3600 * z[1] + 60 * z[2] + z[3] < 86400

\* datetime.fromisoformat(s) returns (TRUE) or raises ValueError (FALSE)
fromisoformat_ok(s) ==
    /\ Len(s) >= 10
    /\ iso_date_ok(SubSeq(s, 1, 10))
    /\ Len(s) > 10 => iso_time_ok(SubSeq(s, 12, Len(s)))

(***************************************************************************)
(* Validators of src/lambda_function.py.                                   *)
(***************************************************************************)
\* validate_device_id with the bound of the number off by one: num >= 0
\* validate_device_id that splits at the last underscore and so accepts a
\* device_id with several underscores
validate_device_id_last_underscore(device_id) ==
    IF ~isinstance_str(device_id) \/ str_count(device_id[1], "_") < 1 THEN FALSE
    ELSE LET at == CHOOSE q \in 1..Len(device_id[1]) :
                     /\ CharAt(device_id[1], q) = "_"
                     /\ \A r \in (q + 1)..Len(device_id[1]) : CharAt(device_id[1], r) # "_"
             device_type == SubSeq(device_id[1], 1, at - 1)
             device_num == SubSeq(device_id[1], at + 1, Len(device_id[1]))
         IN  IF ~int_parses(device_num) THEN FALSE
             ELSE Len(device_type) > 0 /\ int_value(device_num) > 0

validate_device_id_nonnegative(device_id) ==
    IF ~isinstance_str(device_id) \/ str_count(device_id[1], "_") # 1 THEN FALSE
    ELSE LET device_type == split_once(device_id[1], "_")[1]
             device_num == split_once(device_id[1], "_")[2]
         IN  IF ~int_parses(device_num) THEN FALSE
             ELSE Len(device_type) > 0 /\ int_value(device_num) >= 0

validate_device_id(device_id) ==
    IF ~isinstance_str(device_id) \/ str_count(device_id[1], "_") # 1 THEN FALSE
    ELSE LET device_type == split_once(device_id[1], "_")[1]
             device_num == split_once(device_id[1], "_")[2]
         IN  IF ~int_parses(device_num) THEN FALSE
             ELSE Len(device_type) > 0 /\ int_value(device_num) > 0

validate_room_id(room_id) ==
    IF ~isinstance_str(room_id) \/ str_count(room_id[1], "_") # 1 THEN FALSE
    ELSE LET room_prefix == split_once(room_id[1], "_")[1]
             room_num == split_once(room_id[1], "_")[2]
         IN  IF room_prefix # "room" THEN FALSE
             ELSE IF ~int_parses(room_num) THEN FALSE
             ELSE /\ int_value(room_num) > 0
                  /\ Len(room_num) = 3
                  /\ isdigit(room_num)

validate_timestamp(timestamp) ==
    IF ~isinstance_str(timestamp) THEN FALSE
    ELSE IF ~endswith(timestamp[1], "Z") THEN FALSE
    ELSE fromisoformat_ok(replace(timestamp[1], "Z", "+00:00"))

valid_statuses == {"ok", "sensor_error", "offline", "maintenance"}

validate_status(status) == isinstance_str(status) /\ status[1] \in valid_statuses

(***************************************************************************)
(* Validators of src/main.py.                                              *)
(***************************************************************************)
main_validate_device_id(device_id) ==
    IF ~isinstance_str(device_id) \/ str_count(device_id[1], "_") # 1 THEN FALSE
    ELSE LET device_type == split_once(device_id[1], "_")[1]
             device_num == split_once(device_id[1], "_")[2]
         IN  IF ~int_parses(device_num) THEN FALSE
             ELSE Len(device_type) > 0 /\ int_value(device_num) > 0

main_validate_room_id(room_id) ==
    isinstance_str(room_id) /\ Len(strip(room_id[1])) > 0

main_validate_timestamp(timestamp) ==
    IF ~isinstance_str(timestamp) THEN FALSE
    ELSE fromisoformat_ok(replace(timestamp[1], "Z", "+00:00"))

main_validate_status(status) ==
    isinstance_str(status) /\ lower(status[1]) \in valid_statuses

(***************************************************************************)
(* The two deployable modules of the repository and their validators.      *)
(***************************************************************************)
Modules == {"lambda_function", "main"}

\* validators[param](value), with the validator module m registers under that name
apply_validator(m, param, value) ==
    CASE param = "device_id" ->
            IF m = "main" THEN main_validate_device_id(value) ELSE validate_device_id(value)
      [] param = "room_id" ->
            IF m = "main" THEN main_validate_room_id(value) ELSE validate_room_id(value)
      [] param \in {"start_time", "end_time"} ->
            IF m = "main" THEN main_validate_timestamp(value) ELSE validate_timestamp(value)
      [] param = "status" ->
            IF m = "main" THEN main_validate_status(value) ELSE validate_status(value)

(***************************************************************************)
(* Inputs of the validators: identifiers built from a prefix, an optional  *)
(* underscore and every text of at most MaxNumLen characters over          *)
(* NumAlphabet; timestamps built from date, separator, time and suffix     *)
(* variants; status words; the literal examples of the API test suite; and *)
(* two values that are not str.                                            *)
(***************************************************************************)
NumAlphabet == {"0", "1", "+", "-", "a", " ", "_"}

RECURSIVE Join(_)
Join(cs) == IF cs = <<>> THEN "" ELSE Head(cs) \o Join(Tail(cs))

NumTexts == UNION {{Join(f) : f \in [1..n -> NumAlphabet]} : n \in 0..MaxNumLen}

IdPrefixes == {"", "room", "ROOM", "sensor"}

IdTexts == {p \o sep \o n : p \in IdPrefixes, sep \in {"", "_"}, n \in NumTexts}

ExampleTexts ==
    {"sensor01", "sensor_01_temp", "sensor_00", "sensor_-1", "sensor_abc", "_01",
     "sensor_42", "fridge_01", "thermostat_5", "sensor_200",
     "room_000", "room_1", "room_0001", "room01", "ROOM_001", "office_001", "room_abc",
     "room_+01", " ", "_", "room_-01", "room__001", "room001", "_001", "room_",
     "room_01a", "room_1.0", "room_00a", "room_001", "room_010", "room_999",
     "invalid_timestamp", "2025/08/01 10:00:00"}

DateParts ==
    {"2025-08-01", "2025-13-01", "2025-02-30", "2024-02-29", "2025-02-29", "2025/08/01",
     "0000-01-01", "2025-08-00", "2025-8-01"}

DateTimeSeps == {"T", " ", "Z"}

TimeParts ==
    {"10:00:00", "00:00:00", "25:00:00", "24:00:00", "10:60:00", "10:00", "10.00.00"}

ZoneSuffixes == {"Z", "", "z", "+00:00"}

TimestampTexts ==
    {d \o sep \o t \o z : d \in DateParts, sep \in DateTimeSeps, t \in TimeParts,
                          z \in ZoneSuffixes}
    \cup {d \o z : d \in DateParts, z \in ZoneSuffixes}

StatusTexts ==
    {"ok", "sensor_error", "offline", "maintenance", "OK", "SENSOR_ERROR", "broken", "",
     "1", "error", "Ok", "ok ", "Offline"}

NonStrInputs == {None, <<"int", "5">>}

ValidatorInputs ==
    {Str(s) : s \in IdTexts \cup ExampleTexts \cup TimestampTexts \cup StatusTexts}
    \cup NonStrInputs

ValidatorNames == {"device_id", "room_id", "start_time", "end_time", "status"}

(***************************************************************************)
(* Specification of the validators alone: Init draws an input, Validate    *)
(* applies the validators of both modules to it.                           *)
(***************************************************************************)
InitValidators ==
    /\ vin \in ValidatorInputs
    /\ vout = None
    /\ pc = "input"
    /\ module = "lambda_function"
    /\ table = {}
    /\ order = "asc"
    /\ event = None
    /\ fault = None
    /\ response = None
    /\ calls = <<>>

Validate ==
    /\ pc = "input"
    /\ pc' = "validated"
    /\ vout' = [m \in Modules |-> [p \in ValidatorNames |-> apply_validator(m, p, vin)]]
    /\ UNCHANGED <<module, table, order, event, fault, response, calls, vin>>

NextValidators == Validate

SpecValidators == InitValidators /\ [][NextValidators]_vars

(***************************************************************************)
(* The external store: a table of telemetry records with primary key       *)
(* (device_id, timestamp) and a secondary index keyed by (room_id,         *)
(* timestamp).  A request to it is a record                                *)
(*   [op, IndexName, KeyConditionExpression, FilterExpression,             *)
(*    ProjectionExpression]                                                *)
(* built by the query functions below.  Strings compare by code point.     *)
(* A query returns its items in ascending sort-key order; items of the     *)
(* index with equal sort key, and the partitions of a scan, come in an     *)
(* order the store chooses (the variable order).                           *)
(***************************************************************************)
GSI_NAME == "room_id-timestamp-index"

CodePointOrder ==
    " +-./0123456789:ABCDEFGHIJKLMNOPQRSTUVWXYZ_abcdefghijklmnopqrstuvwxyz"

CharCode(c) == CHOOSE i \in 1..Len(CodePointOrder) : CharAt(CodePointOrder, i) = c

\* a < b for two texts
RECURSIVE str_lt(_, _)
str_lt(a, b) ==
    IF b = "" THEN FALSE
    ELSE IF a = "" THEN TRUE
    ELSE IF Head(a) = Head(b) THEN str_lt(Tail(a), Tail(b))
    ELSE CharCode(Head(a)) < CharCode(Head(b))

str_le(a, b) == a = b \/ str_lt(a, b)

NoRange == <<"none", None, None>>

\* Key(attr).eq(value), optionally & Key('timestamp') range
KeyEq(attr, value) == [attr |-> attr, value |-> value, range |-> NoRange]

in_range(ts, range) ==
    CASE range[1] = "none" -> TRUE
      [] range[1] = "between" -> str_le(range[2][1], ts[1]) /\ str_le(ts[1], range[3][1])
      [] range[1] = "gte" -> str_le(range[2][1], ts[1])
      [] range[1] = "lte" -> str_le(ts[1], range[3][1])

\* The order in which the store returns two items of one result
item_before(a, b, by_device_first, ord) ==
    LET dev_lt == IF ord = "asc" THEN str_lt(a.device_id[1], b.device_id[1])
                  ELSE str_lt(b.device_id[1], a.device_id[1])
        ts_lt == str_lt(a.timestamp[1], b.timestamp[1])
    IN  IF by_device_first
        THEN dev_lt \/ (a.device_id = b.device_id /\ ts_lt)
        ELSE ts_lt \/ (a.timestamp = b.timestamp /\ dev_lt)

RECURSIVE items_in_order(_, _, _)
items_in_order(S, by_device_first, ord) ==
    IF S = {} THEN <<>>
    ELSE LET first == CHOOSE a \in S :
                        \A b \in S \ {a} : item_before(a, b, by_device_first, ord)
         IN  <<first>> \o items_in_order(S \ {first}, by_device_first, ord)

passes_filter(item, filter) == \A i \in 1..Len(filter) : item[filter[i][1]] = filter[i][2]

project(item, projection) ==
    IF projection = "ALL" THEN item ELSE [k \in {projection} |-> item[k]]

\* The Items of the store's answer to a request
store_items(tbl, ord, req) ==
    LET selected ==
            IF req.op = "scan" THEN tbl
            ELSE {r \in tbl : /\ r[req.KeyConditionExpression.attr]
                                    = req.KeyConditionExpression.value
                              /\ in_range(r.timestamp, req.KeyConditionExpression.range)}
        ordered == items_in_order(selected, req.op = "scan", ord)
        kept == SelectSeq(ordered, LAMBDA r : passes_filter(r, req.FilterExpression))
    IN  [i \in 1..Len(kept) |-> project(kept[i], req.ProjectionExpression)]

(***************************************************************************)
(* Let(e, LAMBDA x : body) is body with x bound to the value of e: a local  *)
(* variable of the code, assigned once and read several times.             *)
(***************************************************************************)
Let(x, F(_)) == F(x)

(***************************************************************************)
(* A Python call either returns a value or raises.  Return(v, calls) and   *)
(* Raise(msg, calls) are the two results; msg is str(e) of the raised      *)
(* Exception and calls lists the requests sent to the store on the way.    *)
(***************************************************************************)
Return(v, cs) == [ok |-> TRUE, value |-> v, calls |-> cs]

Raise(msg, cs) == [ok |-> FALSE, exc |-> msg, calls |-> cs]

\* Store whose handle keeps the read position of the request served before:
\* after a served request the next read starts at the end of the table
Store_exhausted_cursor(tbl, ord, flt) ==
    [table |-> IF pc = "served" THEN {} ELSE tbl, order |-> ord, fault |-> flt]

\* The process-wide table handle together with the store behind it: its
\* contents, its result order, and the failure it raises on a call (None when
\* it answers).
Store(tbl, ord, flt) == [table |-> tbl, order |-> ord, fault |-> flt]

\* table.scan(**req) / table.query(**req), then response.get('Items', [])
store_call(st, req) ==
    IF st.fault # None THEN Raise(st.fault[1], <<req>>)
    ELSE Return(store_items(st.table, st.order, req), <<req>>)

\* A failure of the store call re-raised as Exception(prefix + str(e))
wrap_failure(res, prefix) ==
    IF res.ok THEN res ELSE Raise(prefix \o res.exc, res.calls)

(***************************************************************************)
(* Query functions of src/lambda_function.py.                              *)
(***************************************************************************)
\* key_condition that drops end_time whenever start_time is given
key_condition_start_only(attr, value, start_time, end_time) ==
    [attr |-> attr, value |-> value,
     range |-> IF truthy(start_time) THEN <<"gte", start_time, None>>
               ELSE IF truthy(end_time) THEN <<"lte", None, end_time>>
               ELSE NoRange]

\* key_condition that puts the earlier of two bounds first
key_condition_ordered_bounds(attr, value, start_time, end_time) ==
    [attr |-> attr, value |-> value,
     range |-> IF truthy(start_time) /\ truthy(end_time)
                 THEN IF str_le(start_time[1], end_time[1])
                      THEN <<"between", start_time, end_time>>
                      ELSE <<"between", end_time, start_time>>
               ELSE IF truthy(start_time) THEN <<"gte", start_time, None>>
               ELSE IF truthy(end_time) THEN <<"lte", None, end_time>>
               ELSE NoRange]

\* Key(attr).eq(value) with the timestamp condition chosen from the bounds
key_condition(attr, value, start_time, end_time) ==
    [attr |-> attr, value |-> value,
     range |-> IF truthy(start_time) /\ truthy(end_time)
                 THEN <<"between", start_time, end_time>>
               ELSE IF truthy(start_time) THEN <<"gte", start_time, None>>
               ELSE IF truthy(end_time) THEN <<"lte", None, end_time>>
               ELSE NoRange]

\* query_all_devices that scans with a filter on device_status
query_all_devices_ok_only(st) ==
    wrap_failure(
        store_call(st, [op |-> "scan", IndexName |-> "table",
                        KeyConditionExpression |-> KeyEq("none", None),
                        FilterExpression |-> << <<"device_status", Str("ok")>> >>,
                        ProjectionExpression |-> "ALL"]),
        "Database query failed: ")

query_all_devices(st) ==
    wrap_failure(
        store_call(st, [op |-> "scan", IndexName |-> "table",
                        KeyConditionExpression |-> KeyEq("none", None),
                        FilterExpression |-> <<>>, ProjectionExpression |-> "ALL"]),
        "Database query failed: ")

\* query_device_by_id that never sets a FilterExpression
query_device_by_id_no_filter(st, device_id, start_time, end_time, status) ==
    wrap_failure(
        store_call(st, [op |-> "query", IndexName |-> "table",
                        KeyConditionExpression |->
                            key_condition("device_id", device_id, start_time, end_time),
                        FilterExpression |-> <<>>,
                        ProjectionExpression |-> "ALL"]),
        "Device query failed: ")

query_device_by_id(st, device_id, start_time, end_time, status) ==
    wrap_failure(
        store_call(st, [op |-> "query", IndexName |-> "table",
                        KeyConditionExpression |->
                            key_condition("device_id", device_id, start_time, end_time),
                        FilterExpression |->
                            IF truthy(status) THEN << <<"device_status", status>> >>
                            ELSE <<>>,
                        ProjectionExpression |-> "ALL"]),
        "Device query failed: ")

query_room_by_id(st, room_id, start_time, end_time) ==
    wrap_failure(
        store_call(st, [op |-> "query", IndexName |-> GSI_NAME,
                        KeyConditionExpression |->
                            key_condition("room_id", room_id, start_time, end_time),
                        FilterExpression |-> <<>>,
                        ProjectionExpression |-> "ALL"]),
        "Room query failed: ")

\* query_room_device_specific without the device_id condition in its filter
query_room_device_specific_unfiltered(st, room_id, device_id, start_time, end_time, status) ==
    wrap_failure(
        store_call(st, [op |-> "query", IndexName |-> GSI_NAME,
                        KeyConditionExpression |->
                            key_condition("room_id", room_id, start_time, end_time),
                        FilterExpression |->
                            IF truthy(status) THEN << <<"device_status", status>> >>
                            ELSE <<>>,
                        ProjectionExpression |-> "ALL"]),
        "Room-device query failed: ")

query_room_device_specific(st, room_id, device_id, start_time, end_time, status) ==
    LET filter_expressions ==
            << <<"device_id", device_id>> >>
            \o (IF truthy(status) THEN << <<"device_status", status>> >> ELSE <<>>)
    IN  wrap_failure(
            store_call(st, [op |-> "query", IndexName |-> GSI_NAME,
                            KeyConditionExpression |->
                                key_condition("room_id", room_id, start_time, end_time),
                            FilterExpression |-> filter_expressions,
                            ProjectionExpression |-> "ALL"]),
            "Room-device query failed: ")

\* query_device_in_specific_room that reads the index by room as the mirrored
\* route does
query_device_in_specific_room_by_index(st, device_id, room_id, start_time, end_time, status) ==
    query_room_device_specific(st, room_id, device_id, start_time, end_time, status)

\* query_device_in_specific_room without the room_id condition in its filter
query_device_in_specific_room_any_room(st, device_id, room_id, start_time, end_time, status) ==
    wrap_failure(
        store_call(st, [op |-> "query", IndexName |-> "table",
                        KeyConditionExpression |->
                            key_condition("device_id", device_id, start_time, end_time),
                        FilterExpression |->
                            IF truthy(status) THEN << <<"device_status", status>> >>
                            ELSE <<>>,
                        ProjectionExpression |-> "ALL"]),
        "Device-room query failed: ")

query_device_in_specific_room(st, device_id, room_id, start_time, end_time, status) ==
    LET filter_expressions ==
            << <<"room_id", room_id>> >>
            \o (IF truthy(status) THEN << <<"device_status", status>> >> ELSE <<>>)
    IN  wrap_failure(
            store_call(st, [op |-> "query", IndexName |-> "table",
                            KeyConditionExpression |->
                                key_condition("device_id", device_id, start_time, end_time),
                            FilterExpression |-> filter_expressions,
                            ProjectionExpression |-> "ALL"]),
            "Device-room query failed: ")

\* sorted(list(set(item[attr] for item in items)))
RECURSIVE sorted(_)
sorted(S) ==
    IF S = {} THEN <<>>
    ELSE LET least == CHOOSE a \in S : \A b \in S : str_le(a[1], b[1])
         IN  <<least>> \o sorted(S \ {least})

\* sorted_unique that keeps the store's order and multiplicity
store_order_listing(items, attr) == [i \in 1..Len(items) |-> items[i][attr]]

sorted_unique(items, attr) == sorted({items[i][attr] : i \in 1..Len(items)})

query_device_room_info(st, device_id) ==
    Let(store_call(st, [op |-> "query", IndexName |-> "table",
                        KeyConditionExpression |-> KeyEq("device_id", device_id),
                        FilterExpression |-> <<>>,
                        ProjectionExpression |-> "room_id"]),
        LAMBDA res :
            IF res.ok THEN Return(sorted_unique(res.value, "room_id"), res.calls)
            ELSE wrap_failure(res, "Device room query failed: "))

get_unique_rooms(st) ==
    Let(store_call(st, [op |-> "scan", IndexName |-> "table",
                        KeyConditionExpression |-> KeyEq("none", None),
                        FilterExpression |-> <<>>,
                        ProjectionExpression |-> "room_id"]),
        LAMBDA res :
            IF res.ok THEN Return(sorted_unique(res.value, "room_id"), res.calls)
            ELSE wrap_failure(res, "Room scan failed: "))

get_unique_devices(st) ==
    Let(store_call(st, [op |-> "scan", IndexName |-> "table",
                        KeyConditionExpression |-> KeyEq("none", None),
                        FilterExpression |-> <<>>,
                        ProjectionExpression |-> "device_id"]),
        LAMBDA res :
            IF res.ok THEN Return(sorted_unique(res.value, "device_id"), res.calls)
            ELSE wrap_failure(res, "Device scan failed: "))

\* [{'device_id': device} for device in sorted(devices)]
device_dicts(devices) == [i \in 1..Len(devices) |-> [device_id |-> devices[i]]]

get_devices_in_room(st, room_id) ==
    Let(store_call(st, [op |-> "query", IndexName |-> GSI_NAME,
                        KeyConditionExpression |-> KeyEq("room_id", room_id),
                        FilterExpression |-> <<>>,
                        ProjectionExpression |-> "device_id"]),
        LAMBDA res :
            IF res.ok
            THEN Return(device_dicts(sorted_unique(res.value, "device_id")), res.calls)
            ELSE wrap_failure(res, "Room devices query failed: "))

(***************************************************************************)
(* Response shaping.  The body of a response is kept as the value handed   *)
(* to json.dumps, after decimal_to_float: a record for a dict, a sequence  *)
(* for a list.                                                             *)
(***************************************************************************)
decimal_leaf(v) == IF Len(v) = 2 /\ v[1] = "Decimal" THEN <<"float", v[2]>> ELSE v

\* Decimals occur only in the attributes of the items under 'data'; every other
\* value of a body is a str, an int, or a list or dict of str.
decimal_to_float(obj) ==
    [k \in DOMAIN obj |->
        IF k = "data"
        THEN [i \in 1..Len(obj[k]) |->
                [a \in DOMAIN obj[k][i] |-> decimal_leaf(obj[k][i][a])]]
        ELSE obj[k]]

default_headers ==
    [ContentType |-> "application/json",
     AccessControlAllowOrigin |-> "*",
     AccessControlAllowMethods |-> "GET, POST, PUT, DELETE, OPTIONS",
     AccessControlAllowHeaders |-> "Content-Type, Authorization"]

create_response(status_code, body) ==
    [statusCode |-> status_code, headers |-> default_headers,
     body |-> decimal_to_float(body)]

create_error_response(status_code, message, errors) ==
    create_response(status_code,
                    IF errors # <<>> THEN [error |-> Str(message), details |-> errors]
                    ELSE [error |-> Str(message)])

(***************************************************************************)
(* Parameter extraction and the validation pipeline.  A dict of parameters *)
(* is a sequence of <<name, value>> pairs in iteration order.  The event's *)
(* pathParameters and queryStringParameters are [kind, ...] records: kind  *)
(* "null" (None or missing), "dict", or "str" for a value that is not a     *)
(* mapping, on which .get raises AttributeError.                           *)
(***************************************************************************)
Missing == "<missing>"

AttributeError == "'str' object has no attribute 'get'"

NoPathParams == [kind |-> "dict", device_id |-> None, room_id |-> None]

NoQueryParams == [kind |-> "dict", items |-> <<>>]

extract_query_params(ev) ==
    IF ev.queryStringParameters.kind = "null" THEN NoQueryParams
    ELSE ev.queryStringParameters

extract_path_params(ev) ==
    IF ev.pathParameters.kind = "null" THEN NoPathParams ELSE ev.pathParameters

\* dict.get(key) on a sequence of pairs
dict_get(items, key) ==
    IF \E i \in 1..Len(items) : items[i][1] = key
    THEN items[CHOOSE i \in 1..Len(items) : items[i][1] = key][2]
    ELSE None

\* str(value), as an f-string formats it
format_value(value) ==
    IF value = None THEN "None" ELSE IF isinstance_str(value) THEN value[1] ELSE value[2]

\* validation_errors without the test that the value is not None
RECURSIVE validation_errors_none_checked(_, _, _)
validation_errors_none_checked(m, params, validators) ==
    IF params = <<>> THEN <<>>
    ELSE LET param == Head(params)[1]
             value == Head(params)[2]
         IN  (IF param \in validators /\ ~apply_validator(m, param, value)
              THEN <<Str("Invalid " \o param \o ": " \o format_value(value))>>
              ELSE <<>>)
             \o validation_errors_none_checked(m, Tail(params), validators)

RECURSIVE validation_errors(_, _, _)
validation_errors(m, params, validators) ==
    IF params = <<>> THEN <<>>
    ELSE LET param == Head(params)[1]
             value == Head(params)[2]
         IN  (IF param \in validators /\ value # None /\ ~apply_validator(m, param, value)
              THEN <<Str("Invalid " \o param \o ": " \o format_value(value))>>
              ELSE <<>>)
             \o validation_errors(m, Tail(params), validators)

\* validate_params that stops at the first failing parameter
validate_params_first_error(m, params, validators) ==
    Let(validation_errors(m, params, validators),
        LAMBDA errors :
            <<Len(errors) = 0, IF errors = <<>> THEN <<>> ELSE <<Head(errors)>> >>)

\* validate_params whose errors list is one module-level list, which still
\* holds the errors reported to another invocation
validate_params_shared_errors(m, params, validators) ==
    Let((IF \E i \in DOMAIN response : "details" \in DOMAIN response[i].body
         THEN response[CHOOSE i \in DOMAIN response :
                           "details" \in DOMAIN response[i].body].body.details
         ELSE <<>>)
        \o validation_errors(m, params, validators),
        LAMBDA errors : <<Len(errors) = 0, errors>>)

\* <<is_valid, errors>>
validate_params(m, params, validators) ==
    Let(validation_errors(m, params, validators),
        LAMBDA errors : <<Len(errors) = 0, errors>>)

\* optional_params that hands no query parameter to the validation
optional_params_dropped(query_params) == <<>>

\* optional_params that also leaves out the parameters whose value is empty
optional_params_truthy(query_params) == SelectSeq(query_params.items, LAMBDA kv : truthy(kv[2]))

\* {k: v for k, v in query_params.items() if v is not None}
optional_params(query_params) == SelectSeq(query_params.items, LAMBDA kv : kv[2] # None)

(***************************************************************************)
(* Route handlers.  m is the module whose validators are bound.            *)
(***************************************************************************)
\* handle_root that asks the store a second time when the first call failed
handle_root_retrying(m, st, ev) ==
    Let(query_all_devices(st),
        LAMBDA first :
            IF first.ok
            THEN Return(create_response(200, [data |-> first.value,
                                              count |-> Len(first.value)]),
                        first.calls)
            ELSE Let(query_all_devices(st),
                     LAMBDA res :
                         IF res.ok
                         THEN Return(create_response(200, [data |-> res.value,
                                                           count |-> Len(res.value)]),
                                     first.calls \o res.calls)
                         ELSE Return(create_error_response(
                                         500, "Failed to retrieve data: " \o res.exc, <<>>),
                                     first.calls \o res.calls)))

handle_root(m, st, ev) ==
    Let(query_all_devices(st),
        LAMBDA res :
            IF res.ok
            THEN Return(create_response(200, [data |-> res.value, count |-> Len(res.value)]),
                        res.calls)
            ELSE Return(create_error_response(500, "Failed to retrieve data: " \o res.exc, <<>>),
                        res.calls))

\* handle_devices_list that counts the records of the table, not the devices
handle_devices_list_record_count(m, st, ev) ==
    Let(get_unique_devices(st),
        LAMBDA res :
            IF res.ok
            THEN Return(create_response(200, [devices |-> res.value,
                                              count |-> Cardinality(st.table)]),
                        res.calls)
            ELSE Return(create_error_response(500, "Failed to retrieve devices: " \o res.exc, <<>>),
                        res.calls))

handle_devices_list(m, st, ev) ==
    Let(get_unique_devices(st),
        LAMBDA res :
            IF res.ok
            THEN Return(create_response(200, [devices |-> res.value, count |-> Len(res.value)]),
                        res.calls)
            ELSE Return(create_error_response(500, "Failed to retrieve devices: " \o res.exc, <<>>),
                        res.calls))

\* handle_device_detail that validates the path identifier and the query
\* filters in one pass
handle_device_detail_joint_validation(m, st, ev) ==
    LET path_params == extract_path_params(ev)
        query_params == extract_query_params(ev)
        device_id == path_params.device_id
        start_time == dict_get(query_params.items, "start_time")
        end_time == dict_get(query_params.items, "end_time")
        status == dict_get(query_params.items, "status")
    IN  IF path_params.kind = "str" \/ query_params.kind = "str"
        THEN Raise(AttributeError, <<>>)
        ELSE
        Let(validate_params(m, << <<"device_id", device_id>> >> \o optional_params(query_params),
                            {"device_id", "start_time", "end_time", "status"}),
            LAMBDA checked :
                IF ~checked[1]
                THEN Return(create_error_response(400, "Validation failed", checked[2]),
                            <<>>)
                ELSE
                Let(query_device_by_id(st, device_id, start_time, end_time, status),
                    LAMBDA res :
                        IF res.ok
                        THEN Return(create_response(
                                        200, [device_id |-> device_id,
                                              data |-> res.value,
                                              count |-> Len(res.value)]),
                                    res.calls)
                        ELSE Return(create_error_response(
                                        500,
                                        "Failed to retrieve device data: " \o res.exc, <<>>),
                                    res.calls)))

handle_device_detail(m, st, ev) ==
    LET path_params == extract_path_params(ev)
        query_params == extract_query_params(ev)
        device_id == path_params.device_id
        start_time == dict_get(query_params.items, "start_time")
        end_time == dict_get(query_params.items, "end_time")
        status == dict_get(query_params.items, "status")
    IN  IF path_params.kind = "str" THEN Raise(AttributeError, <<>>)
        ELSE
        Let(validate_params(m, << <<"device_id", device_id>> >>, {"device_id"}),
            LAMBDA checked :
                IF ~checked[1]
                THEN Return(create_error_response(400, "Validation failed", checked[2]),
                            <<>>)
                ELSE IF query_params.kind = "str" THEN Raise(AttributeError, <<>>)
                ELSE
                Let(validate_params(m, optional_params(query_params),
                                    {"start_time", "end_time", "status"}),
                    LAMBDA optional :
                        IF ~optional[1]
                        THEN Return(create_error_response(
                                        400, "Query parameter validation failed",
                                        optional[2]), <<>>)
                        ELSE
                        Let(query_device_by_id(st, device_id, start_time, end_time, status),
                            LAMBDA res :
                                IF res.ok
                                THEN Return(create_response(
                                                200, [device_id |-> device_id,
                                                      data |-> res.value,
                                                      count |-> Len(res.value)]),
                                            res.calls)
                                ELSE Return(create_error_response(
                                                500,
                                                "Failed to retrieve device data: " \o res.exc, <<>>),
                                            res.calls))))

handle_device_rooms(m, st, ev) ==
    LET path_params == extract_path_params(ev)
        device_id == path_params.device_id
    IN  IF path_params.kind = "str" THEN Raise(AttributeError, <<>>)
        ELSE
        Let(validate_params(m, << <<"device_id", device_id>> >>, {"device_id"}),
            LAMBDA checked :
                IF ~checked[1]
                THEN Return(create_error_response(400, "Validation failed", checked[2]),
                            <<>>)
                ELSE
                Let(query_device_room_info(st, device_id),
                    LAMBDA res :
                        IF res.ok
                        THEN Return(create_response(
                                        200, [device_id |-> device_id, rooms |-> res.value,
                                              count |-> Len(res.value)]), res.calls)
                        ELSE Return(create_error_response(
                                        500, "Failed to retrieve device rooms: " \o res.exc, <<>>), res.calls)))

handle_device_room_detail(m, st, ev) ==
    LET path_params == extract_path_params(ev)
        query_params == extract_query_params(ev)
        device_id == path_params.device_id
        room_id == path_params.room_id
        start_time == dict_get(query_params.items, "start_time")
        end_time == dict_get(query_params.items, "end_time")
        status == dict_get(query_params.items, "status")
    IN  IF path_params.kind = "str" THEN Raise(AttributeError, <<>>)
        ELSE
        Let(validate_params(m, << <<"device_id", device_id>>, <<"room_id", room_id>> >>,
                            {"device_id", "room_id"}),
            LAMBDA checked :
                IF ~checked[1]
                THEN Return(create_error_response(400, "Validation failed", checked[2]),
                            <<>>)
                ELSE IF query_params.kind = "str" THEN Raise(AttributeError, <<>>)
                ELSE
                Let(validate_params(m, optional_params(query_params),
                                    {"start_time", "end_time", "status"}),
                    LAMBDA optional :
                        IF ~optional[1]
                        THEN Return(create_error_response(
                                        400, "Query parameter validation failed",
                                        optional[2]), <<>>)
                        ELSE
                        Let(query_device_in_specific_room(
                                st, device_id, room_id, start_time, end_time, status),
                            LAMBDA res :
                                IF res.ok
                                THEN Return(create_response(
                                                200, [device_id |-> device_id,
                                                      room_id |-> room_id,
                                                      data |-> res.value,
                                                      count |-> Len(res.value)]),
                                            res.calls)
                                ELSE Return(create_error_response(
                                                500,
                                                "Failed to retrieve device-room data: " \o res.exc, <<>>),
                                            res.calls))))

handle_rooms_list(m, st, ev) ==
    Let(get_unique_rooms(st),
        LAMBDA res :
            IF res.ok
            THEN Return(create_response(200, [rooms |-> res.value, count |-> Len(res.value)]),
                        res.calls)
            ELSE Return(create_error_response(500, "Failed to retrieve rooms: " \o res.exc, <<>>),
                        res.calls))

\* handle_room_detail whose optional validators include validate_status
handle_room_detail_status_validated(m, st, ev) ==
    LET path_params == extract_path_params(ev)
        query_params == extract_query_params(ev)
        room_id == path_params.room_id
        start_time == dict_get(query_params.items, "start_time")
        end_time == dict_get(query_params.items, "end_time")
    IN  IF path_params.kind = "str" THEN Raise(AttributeError, <<>>)
        ELSE
        Let(validate_params(m, << <<"room_id", room_id>> >>, {"room_id"}),
            LAMBDA checked :
                IF ~checked[1]
                THEN Return(create_error_response(400, "Validation failed", checked[2]),
                            <<>>)
                ELSE IF query_params.kind = "str" THEN Raise(AttributeError, <<>>)
                ELSE
                Let(validate_params(m, optional_params(query_params),
                                    {"start_time", "end_time", "status"}),
                    LAMBDA optional :
                        IF ~optional[1]
                        THEN Return(create_error_response(
                                        400, "Query parameter validation failed",
                                        optional[2]), <<>>)
                        ELSE
                        Let(query_room_by_id(st, room_id, start_time, end_time),
                            LAMBDA res :
                                IF res.ok
                                THEN Return(create_response(
                                                200, [room_id |-> room_id,
                                                      data |-> res.value,
                                                      count |-> Len(res.value)]),
                                            res.calls)
                                ELSE Return(create_error_response(
                                                500,
                                                "Failed to retrieve room data: " \o res.exc, <<>>),
                                            res.calls))))

handle_room_detail(m, st, ev) ==
    LET path_params == extract_path_params(ev)
        query_params == extract_query_params(ev)
        room_id == path_params.room_id
        start_time == dict_get(query_params.items, "start_time")
        end_time == dict_get(query_params.items, "end_time")
    IN  IF path_params.kind = "str" THEN Raise(AttributeError, <<>>)
        ELSE
        Let(validate_params(m, << <<"room_id", room_id>> >>, {"room_id"}),
            LAMBDA checked :
                IF ~checked[1]
                THEN Return(create_error_response(400, "Validation failed", checked[2]),
                            <<>>)
                ELSE IF query_params.kind = "str" THEN Raise(AttributeError, <<>>)
                ELSE
                Let(validate_params(m, optional_params(query_params),
                                    {"start_time", "end_time"}),
                    LAMBDA optional :
                        IF ~optional[1]
                        THEN Return(create_error_response(
                                        400, "Query parameter validation failed",
                                        optional[2]), <<>>)
                        ELSE
                        Let(query_room_by_id(st, room_id, start_time, end_time),
                            LAMBDA res :
                                IF res.ok
                                THEN Return(create_response(
                                                200, [room_id |-> room_id,
                                                      data |-> res.value,
                                                      count |-> Len(res.value)]),
                                            res.calls)
                                ELSE Return(create_error_response(
                                                500,
                                                "Failed to retrieve room data: " \o res.exc, <<>>),
                                            res.calls))))

handle_room_devices(m, st, ev) ==
    LET path_params == extract_path_params(ev)
        room_id == path_params.room_id
    IN  IF path_params.kind = "str" THEN Raise(AttributeError, <<>>)
        ELSE
        Let(validate_params(m, << <<"room_id", room_id>> >>, {"room_id"}),
            LAMBDA checked :
                IF ~checked[1]
                THEN Return(create_error_response(400, "Validation failed", checked[2]),
                            <<>>)
                ELSE
                Let(get_devices_in_room(st, room_id),
                    LAMBDA res :
                        IF res.ok
                        THEN Return(create_response(
                                        200, [room_id |-> room_id, devices |-> res.value,
                                              count |-> Len(res.value)]), res.calls)
                        ELSE Return(create_error_response(
                                        500, "Failed to retrieve room devices: " \o res.exc, <<>>), res.calls)))

handle_room_device_detail(m, st, ev) ==
    LET path_params == extract_path_params(ev)
        query_params == extract_query_params(ev)
        room_id == path_params.room_id
        device_id == path_params.device_id
        start_time == dict_get(query_params.items, "start_time")
        end_time == dict_get(query_params.items, "end_time")
        status == dict_get(query_params.items, "status")
    IN  IF path_params.kind = "str" THEN Raise(AttributeError, <<>>)
        ELSE
        Let(validate_params(m, << <<"room_id", room_id>>, <<"device_id", device_id>> >>,
                            {"room_id", "device_id"}),
            LAMBDA checked :
                IF ~checked[1]
                THEN Return(create_error_response(400, "Validation failed", checked[2]),
                            <<>>)
                ELSE IF query_params.kind = "str" THEN Raise(AttributeError, <<>>)
                ELSE
                Let(validate_params(m, optional_params(query_params),
                                    {"start_time", "end_time", "status"}),
                    LAMBDA optional :
                        IF ~optional[1]
                        THEN Return(create_error_response(
                                        400, "Query parameter validation failed",
                                        optional[2]), <<>>)
                        ELSE
                        Let(query_room_device_specific(
                                st, room_id, device_id, start_time, end_time, status),
                            LAMBDA res :
                                IF res.ok
                                THEN Return(create_response(
                                                200, [room_id |-> room_id,
                                                      device_id |-> device_id,
                                                      data |-> res.value,
                                                      count |-> Len(res.value)]),
                                            res.calls)
                                ELSE Return(create_error_response(
                                                500,
                                                "Failed to retrieve room-device data: " \o res.exc, <<>>),
                                            res.calls))))

(***************************************************************************)
(* Routing.                                                                *)
(***************************************************************************)
\* A routing table keyed by the template alone: every method reaches the handler
ROUTE_HANDLERS_any_method ==
    {<<mth, t>> : mth \in {"GET", "POST", "get"},
                  t \in {"/", "/devices", "/devices/{device_id}",
                         "/devices/{device_id}/rooms", "/devices/{device_id}/{room_id}",
                         "/rooms", "/rooms/{room_id}", "/rooms/{room_id}/devices",
                         "/rooms/{room_id}/{device_id}"}}

ROUTE_HANDLERS ==
    {<<"GET", "/">>, <<"GET", "/devices">>, <<"GET", "/devices/{device_id}">>,
     <<"GET", "/devices/{device_id}/rooms">>, <<"GET", "/devices/{device_id}/{room_id}">>,
     <<"GET", "/rooms">>, <<"GET", "/rooms/{room_id}">>,
     <<"GET", "/rooms/{room_id}/devices">>, <<"GET", "/rooms/{room_id}/{device_id}">>}

main_ROUTE_HANDLERS ==
    {<<"GET", "/">>, <<"GET", "/devices">>, <<"GET", "/devices/{device_id}">>,
     <<"GET", "/rooms">>, <<"GET", "/rooms/{room_id}">>,
     <<"GET", "/rooms/{room_id}/devices">>, <<"GET", "/rooms/{room_id}/{device_id}">>}

\* The keys of the routing table of module m
route_keys(m) == IF m = "main" THEN main_ROUTE_HANDLERS ELSE ROUTE_HANDLERS

\* route_handler(event), for a registered route key
route_handler(m, route_key, st, ev) ==
    CASE route_key[2] = "/" -> handle_root(m, st, ev)
      [] route_key[2] = "/devices" -> handle_devices_list(m, st, ev)
      [] route_key[2] = "/devices/{device_id}" -> handle_device_detail(m, st, ev)
      [] route_key[2] = "/devices/{device_id}/rooms" -> handle_device_rooms(m, st, ev)
      [] route_key[2] = "/devices/{device_id}/{room_id}" ->
            handle_device_room_detail(m, st, ev)
      [] route_key[2] = "/rooms" -> handle_rooms_list(m, st, ev)
      [] route_key[2] = "/rooms/{room_id}" -> handle_room_detail(m, st, ev)
      [] route_key[2] = "/rooms/{room_id}/devices" -> handle_room_devices(m, st, ev)
      [] route_key[2] = "/rooms/{room_id}/{device_id}" ->
            handle_room_device_detail(m, st, ev)

\* The body of the router's try block
dispatch(m, st, ev) ==
    LET http_method == IF ev.httpMethod = Missing THEN "GET" ELSE ev.httpMethod
        resource_path == IF ev.resource = Missing THEN "/" ELSE ev.resource
        route_key == <<http_method, resource_path>>
    IN  IF route_key \notin route_keys(m)
        THEN Return(create_error_response(
                        404, "Route not found: " \o http_method
                             \o " " \o resource_path, <<>>), <<>>)
        ELSE route_handler(m, route_key, st, ev)

\* handler without its try/except: a failure of the dispatch escapes
handler_uncaught(m, st, ev) == dispatch(m, st, ev)

\* handler(event, context) of lambda_function.py, lambda_handler of main.py
handler(m, st, ev) ==
    Let(dispatch(m, st, ev),
        LAMBDA res :
            IF res.ok THEN res
            ELSE Return(create_error_response(
                            500, "Internal server error: " \o res.exc, <<>>),
                        res.calls))


(***************************************************************************)
(* The environment: the records external producers append to the table,    *)
(* and the events the front door delivers.                                 *)
(***************************************************************************)
T1 == Str("2025-08-01T00:00:00Z")

T2 == Str("2025-08-01T10:00:00Z")

T3 == Str("2025-08-02T00:00:00Z")

TelemetryRecord(d, r, ts, temp, status) ==
    [device_id |-> Str(d), room_id |-> Str(r), timestamp |-> ts,
     temperature |-> temp, device_status |-> Str(status)]

\* Two devices and two rooms; sensor_1 was seen in both rooms, and each room has
\* two devices reporting at the same instant.
RecordUniverse ==
    {TelemetryRecord("sensor_1", "room_001", T1, <<"Decimal", "21.5">>, "ok"),
     TelemetryRecord("sensor_1", "room_001", T2, None, "sensor_error"),
     TelemetryRecord("sensor_1", "room_002", T3, <<"Decimal", "22.0">>, "ok"),
     TelemetryRecord("fridge_02", "room_001", T2, <<"Decimal", "4.0">>, "ok"),
     TelemetryRecord("fridge_02", "room_002", T3, <<"Decimal", "5.5">>, "offline")}

\* Identifiers the front door binds: two well-formed ones and a malformed one
GoodDevices == {Str("sensor_1"), Str("fridge_02")}

DeviceValues == GoodDevices \cup {Str("sensor_00")}

GoodRooms == {Str("room_001"), Str("room_002")}

RoomValues == GoodRooms \cup {Str("room_1")}

\* The names of the query filters
FilterNames == {"start_time", "end_time", "status"}

\* The values a query parameter takes; Absent stands for a name the dict lacks
Absent == <<"absent", "">>

QueryValues(name) ==
    CASE name = "start_time" -> {Absent, T2, Str("2025-13-01T00:00:00Z")}
      [] name = "end_time" -> {Absent, T1, T2, Str("2025-08-01T10:00:00")}
      [] name = "status" -> {Absent, Str("ok"), Str("sensor_error"), Str("OK"), Str("")}

\* The orders in which the client wrote the parameters
QueryOrders ==
    {<<"start_time", "end_time", "status">>, <<"status", "end_time", "start_time">>}

\* One value, or Absent, for every filter name
QueryChoices ==
    {c \in [FilterNames -> UNION {QueryValues(n) : n \in FilterNames}] :
        \A n \in FilterNames : c[n] \in QueryValues(n)}

\* Every dict of query parameters: a sequence of pairs with distinct names
QueryDicts ==
    {SelectSeq([i \in 1..3 |-> <<o[i], c[o[i]]>>], LAMBDA kv : kv[2] # Absent) :
         o \in QueryOrders, c \in QueryChoices}

NullParams == [kind |-> "null", items |-> <<>>]

StrParams == [kind |-> "str", items |-> <<>>]

\* Dicts in which a time bound is present with the empty string as its value
EmptyValueDicts ==
    {<< <<"start_time", Str("")>> >>,
     << <<"end_time", Str("")>> >>,
     << <<"start_time", Str("")>>, <<"end_time", T2>> >>,
     << <<"start_time", T2>>, <<"end_time", Str("")>>, <<"status", Str("ok")>> >>}

QueryFamily ==
    {[kind |-> "dict", items |-> q] : q \in QueryDicts \cup EmptyValueDicts}
    \cup {NullParams, StrParams}

\* The query parameters delivered together with malformed path parameters
QueryFamilySmall ==
    {NullParams, StrParams,
     [kind |-> "dict", items |-> << <<"status", Str("ok")>> >>],
     [kind |-> "dict", items |-> << <<"status", Str("OK")>>, <<"end_time", T2>> >>]}

PathDict(d, r) == [kind |-> "dict", device_id |-> d, room_id |-> r]

PathNull == [kind |-> "null", device_id |-> None, room_id |-> None]

PathStr == [kind |-> "str", device_id |-> None, room_id |-> None]

FilterTemplates ==
    {"/devices/{device_id}", "/devices/{device_id}/{room_id}", "/rooms/{room_id}",
     "/rooms/{room_id}/{device_id}"}

ListingTemplates ==
    {"/", "/devices", "/devices/{device_id}/rooms", "/rooms", "/rooms/{room_id}/devices"}

Templates == FilterTemplates \cup ListingTemplates

HasDevice(resource) ==
    resource \in {"/devices/{device_id}", "/devices/{device_id}/rooms",
                  "/devices/{device_id}/{room_id}", "/rooms/{room_id}/{device_id}"}

HasRoom(resource) ==
    resource \in {"/rooms/{room_id}", "/rooms/{room_id}/devices",
                  "/devices/{device_id}/{room_id}", "/rooms/{room_id}/{device_id}"}

\* The pathParameters the front door may bind for a template
PathFamily(resource) ==
    LET devs == IF HasDevice(resource) THEN DeviceValues ELSE {}
        rooms == IF HasRoom(resource) THEN RoomValues ELSE {}
    IN  IF devs = {} /\ rooms = {} THEN {PathNull}
        ELSE ({PathDict(d, r) : d \in devs \cup {None}, r \in rooms \cup {None}}
              \ {PathDict(None, None)})
             \cup {PathNull, PathStr}

\* Those of them that bind every identifier of the template to a well-formed one
GoodPaths(resource) ==
    {PathDict(d, r) : d \in IF HasDevice(resource) THEN GoodDevices ELSE {None},
                      r \in IF HasRoom(resource) THEN GoodRooms ELSE {None}}

Event(method, resource, pp, qp) ==
    [httpMethod |-> method, resource |-> resource, pathParameters |-> pp,
     queryStringParameters |-> qp]

Events ==
    UNION {{Event("GET", r, pp, qp) : pp \in GoodPaths(r), qp \in QueryFamily} :
               r \in FilterTemplates}
    \cup UNION {{Event("GET", r, pp, qp) :
                     pp \in PathFamily(r) \ GoodPaths(r), qp \in QueryFamilySmall} :
                    r \in FilterTemplates}
    \cup UNION {{Event("GET", r, pp, NullParams) : pp \in PathFamily(r)} :
                    r \in ListingTemplates}
    \cup {Event(mth, r, PathNull, NullParams) :
              mth \in {"POST", "get", Missing}, r \in Templates \cup {Missing, "/unknown"}}
    \cup {Event("GET", r, PathNull, NullParams) :
              r \in {Missing, "/unknown", "/devices/", "/devices/{device_id}/{room_id}/invalid"}}

\* The message of the failure the store raises on a call, None when it answers
Faults == {None, Str("ProvisionedThroughputExceededException")}

NoEvent == Event(Missing, Missing, PathNull, NullParams)

NoResponse == [statusCode |-> 0, headers |-> default_headers, body |-> [error |-> None]]

(***************************************************************************)
(* The state machine.  An external producer appends records; the front     *)
(* door delivers one event at a time, the handler of the deployed module   *)
(* runs to completion on it, and the invocation's values are discarded.    *)
(***************************************************************************)
InitModule(m) ==
    /\ module = m
    /\ table = {}
    /\ order \in {"asc", "desc"}
    /\ pc = "idle"
    /\ event = NoEvent
    /\ fault = None
    /\ response = NoResponse
    /\ calls = <<>>
    /\ vin = None
    /\ vout = None

Init == InitModule("lambda_function")

InitMain == InitModule("main")

\* An external producer writes a record; (device_id, timestamp) is the primary key
PutItem(r) ==
    /\ pc = "idle"
    /\ Cardinality(table) < MaxRecords
    /\ \A x \in table : ~(x.device_id = r.device_id /\ x.timestamp = r.timestamp)
    /\ table' = table \cup {r}
    /\ UNCHANGED <<module, order, pc, event, fault, response, calls, vin, vout>>

\* One invocation of the handler, run to completion
Invoke(ev, flt) ==
    /\ pc = "idle"
    /\ \E res \in {handler(module, Store(table, order, flt), ev)} :
           /\ response' = IF res.ok THEN res.value ELSE [exc |-> res.exc]
           /\ calls' = res.calls
           /\ fault' = IF res.calls = <<>> THEN None ELSE flt
    /\ event' = ev
    /\ pc' = "done"
    /\ UNCHANGED <<module, table, order, vin, vout>>

\* The response was delivered; nothing of the invocation is kept
Complete ==
    /\ pc = "done"
    /\ pc' = "idle"
    /\ event' = NoEvent
    /\ fault' = None
    /\ response' = NoResponse
    /\ calls' = <<>>
    /\ UNCHANGED <<module, table, order, vin, vout>>

Next ==
    \/ \E r \in RecordUniverse : PutItem(r)
    \/ \E ev \in Events, flt \in Faults : Invoke(ev, flt)
    \/ Complete

Spec == Init /\ [][Next]_vars

(***************************************************************************)
(* The same process serving the same request a second time.  The first     *)
(* request and its response are remembered in vin and vout, to compare;    *)
(* the handler does not read them.                                         *)
(***************************************************************************)
\* The first response was delivered; the process stays warm
Remember ==
    /\ pc = "done"
    /\ pc' = "served"
    /\ vin' = [event |-> event, fault |-> fault]
    /\ vout' = response
    /\ event' = NoEvent
    /\ fault' = None
    /\ response' = NoResponse
    /\ calls' = <<>>
    /\ UNCHANGED <<module, table, order>>

\* The client issues the same request again, the store being as it was
Reissue ==
    /\ pc = "served"
    /\ \E res \in {handler(module, Store(table, order, vin.fault), vin.event)} :
           /\ response' = IF res.ok THEN res.value ELSE [exc |-> res.exc]
           /\ calls' = res.calls
           /\ fault' = IF res.calls = <<>> THEN None ELSE vin.fault
    /\ event' = vin.event
    /\ pc' = "redone"
    /\ UNCHANGED <<module, table, order, vin, vout>>

\* The second response was delivered
Forget ==
    /\ pc = "redone"
    /\ pc' = "idle"
    /\ event' = NoEvent
    /\ fault' = None
    /\ response' = NoResponse
    /\ calls' = <<>>
    /\ vin' = None
    /\ vout' = None
    /\ UNCHANGED <<module, table, order>>

NextRepeat ==
    \/ Next
    \/ Remember
    \/ Reissue
    \/ Forget

SpecRepeat == Init /\ [][NextRepeat]_vars

(***************************************************************************)
(* Specification of validate_params alone: Init draws a dict of parameters *)
(* and the names that have a validator, ValidateParams applies the         *)
(* function with the validators of each module bound to those names.       *)
(***************************************************************************)
\* The values an entry may hold under each name; limit is a name no handler
\* registers a validator for
ParamValues(name) ==
    CASE name = "device_id" -> {None, Str("sensor_1"), Str("sensor_00"), <<"int", "5">>}
      [] name = "room_id" -> {None, Str("room_001"), Str("room_1")}
      [] name = "start_time" -> {None, T2, Str("2025-13-01T00:00:00Z")}
      [] name = "end_time" -> {None, T1, Str("2025-08-01T10:00:00")}
      [] name = "status" -> {None, Str("ok"), Str("OK")}
      [] name = "limit" -> {None, Str("10")}

ParamNames == ValidatorNames \cup {"limit"}

ParamEntries == UNION {{<<n, v>> : v \in ParamValues(n)} : n \in ParamNames}

\* The dicts of at most n entries, as sequences in iteration order
RECURSIVE ParamDicts(_)
ParamDicts(n) ==
    IF n = 0 THEN {<<>>}
    ELSE ParamDicts(n - 1)
         \cup {Append(d, e) : d \in {x \in ParamDicts(n - 1) : Len(x) = n - 1},
                              e \in ParamEntries}

DistinctNames(d) == \A i, j \in 1..Len(d) : i # j => d[i][1] # d[j][1]

\* The validator dicts the handlers build, and the empty one
ValidatorSets ==
    {{}, {"device_id"}, {"device_id", "room_id"}, {"start_time", "end_time"},
     {"start_time", "end_time", "status"}}

InitValidateParams ==
    /\ vin \in {[params |-> d, validators |-> vs] :
                   d \in {x \in ParamDicts(MaxParams) : DistinctNames(x)},
                   vs \in ValidatorSets}
    /\ vout = None
    /\ pc = "params"
    /\ module = "lambda_function"
    /\ table = {}
    /\ order = "asc"
    /\ event = None
    /\ fault = None
    /\ response = None
    /\ calls = <<>>

ValidateParams ==
    /\ pc = "params"
    /\ pc' = "params_validated"
    /\ vout' = [m \in Modules |-> validate_params(m, vin.params, vin.validators)]
    /\ UNCHANGED <<module, table, order, event, fault, response, calls, vin>>

NextValidateParams == ValidateParams

SpecValidateParams == InitValidateParams /\ [][NextValidateParams]_vars

(***************************************************************************)
(* Several invocations in flight in one process, against a store that does *)
(* not change.  An invocation runs to completion except at its call into   *)
(* the store, where it is suspended and others run.  pc, event, fault,     *)
(* response and calls hold one value per invocation: the values a handler  *)
(* builds are locals of its call.  module, table and order are the         *)
(* process-wide state: the routing table and the table handle.             *)
(***************************************************************************)
Invocations == 1..MaxInFlight

\* The requests sent concurrently: two that read the store with filters, a
\* listing, two that fail validation, and one for an unknown route
ConcurrentEvents ==
    {Event("GET", "/devices/{device_id}", PathDict(Str("sensor_1"), None),
           [kind |-> "dict", items |-> << <<"status", Str("ok")>> >>]),
     Event("GET", "/rooms/{room_id}/{device_id}",
           PathDict(Str("fridge_02"), Str("room_001")),
           [kind |-> "dict", items |-> << <<"start_time", T2>>, <<"end_time", T2>> >>]),
     Event("GET", "/rooms", PathNull, NullParams),
     Event("GET", "/devices/{device_id}/{room_id}",
           PathDict(Str("sensor_00"), Str("room_1")), NullParams),
     Event("GET", "/devices/{device_id}", PathDict(Str("sensor_1"), None),
           [kind |-> "dict",
            items |-> << <<"status", Str("OK")>>, <<"end_time", Str("2025-08-01T10:00:00")>> >>]),
     Event("GET", "/unknown", PathNull, NullParams)}

\* The tables of MaxRecords records
FullTables ==
    {t \in SUBSET RecordUniverse :
        /\ Cardinality(t) = MaxRecords
        /\ \A x, y \in t :
              (x.device_id = y.device_id /\ x.timestamp = y.timestamp) => x = y}

InitConcurrent ==
    /\ module = "lambda_function"
    /\ table \in FullTables
    /\ order \in {"asc", "desc"}
    /\ pc = [i \in Invocations |-> "idle"]
    /\ event = [i \in Invocations |-> NoEvent]
    /\ fault = [i \in Invocations |-> None]
    /\ response = [i \in Invocations |-> NoResponse]
    /\ calls = [i \in Invocations |-> <<>>]
    /\ vin = None
    /\ vout = None

\* Invocation i runs from the entry of handler to its store call, or to its
\* return when it makes none
Start(i, ev) ==
    /\ pc[i] = "idle"
    /\ \E res \in {handler(module, Store(table, order, None), ev)} :
           IF res.calls = <<>>
           THEN /\ pc' = [pc EXCEPT ![i] = "done"]
                /\ response' = [response EXCEPT
                                   ![i] = IF res.ok THEN res.value ELSE [exc |-> res.exc]]
                /\ calls' = calls
           ELSE /\ pc' = [pc EXCEPT ![i] = "suspended"]
                /\ response' = response
                /\ calls' = [calls EXCEPT ![i] = res.calls]
    /\ event' = [event EXCEPT ![i] = ev]
    /\ UNCHANGED <<module, table, order, fault, vin, vout>>

\* The store answers invocation i, or fails, and i runs to its return
Resume(i, flt) ==
    /\ pc[i] = "suspended"
    /\ \E res \in {handler(module, Store(table, order, flt), event[i])} :
           response' = [response EXCEPT
                           ![i] = IF res.ok THEN res.value ELSE [exc |-> res.exc]]
    /\ fault' = [fault EXCEPT ![i] = flt]
    /\ pc' = [pc EXCEPT ![i] = "done"]
    /\ UNCHANGED <<module, table, order, event, calls, vin, vout>>

\* The response of invocation i was delivered; its values are discarded
Finish(i) ==
    /\ pc[i] = "done"
    /\ pc' = [pc EXCEPT ![i] = "idle"]
    /\ event' = [event EXCEPT ![i] = NoEvent]
    /\ fault' = [fault EXCEPT ![i] = None]
    /\ response' = [response EXCEPT ![i] = NoResponse]
    /\ calls' = [calls EXCEPT ![i] = <<>>]
    /\ UNCHANGED <<module, table, order, vin, vout>>

NextConcurrent ==
    \/ \E i \in Invocations, ev \in ConcurrentEvents : Start(i, ev)
    \/ \E i \in Invocations, flt \in Faults : Resume(i, flt)
    \/ \E i \in Invocations : Finish(i)

SpecConcurrent == InitConcurrent /\ [][NextConcurrent]_vars

SpecMain == InitMain /\ [][Next]_vars

(***************************************************************************)
(* decimal_to_float and create_response on any body.  A body is a Python   *)
(* object: a leaf in the encoding used above (a str <<s>>, None, or a      *)
(* tagged pair such as <<"Decimal", "21.5">>), a dict <<"dict", items>>    *)
(* whose items are <<key, value>> pairs in insertion order, a list         *)
(* <<"list", elements>>, or a tuple <<"tuple", elements>>, which is        *)
(* neither a dict nor a list.                                              *)
(***************************************************************************)
isinstance_Decimal(obj) == Len(obj) = 2 /\ obj[1] = "Decimal"

isinstance_dict(obj) == Len(obj) = 2 /\ obj[1] = "dict"

isinstance_list(obj) == Len(obj) = 2 /\ obj[1] = "list"

\* decimal_to_float that walks dicts but returns a list as it is
RECURSIVE decimal_to_float_dicts_only(_)
decimal_to_float_dicts_only(obj) ==
    IF isinstance_Decimal(obj) THEN <<"float", obj[2]>>
    ELSE IF isinstance_dict(obj)
    THEN <<"dict", [i \in 1..Len(obj[2]) |->
                      <<obj[2][i][1], decimal_to_float_dicts_only(obj[2][i][2])>>]>>
    ELSE obj

RECURSIVE decimal_to_float_obj(_)
decimal_to_float_obj(obj) ==
    IF isinstance_Decimal(obj) THEN <<"float", obj[2]>>
    ELSE IF isinstance_dict(obj)
    THEN <<"dict", [i \in 1..Len(obj[2]) |->
                      <<obj[2][i][1], decimal_to_float_obj(obj[2][i][2])>>]>>
    ELSE IF isinstance_list(obj)
    THEN <<"list", [i \in 1..Len(obj[2]) |-> decimal_to_float_obj(obj[2][i])]>>
    ELSE obj

create_response_obj(status_code, body) ==
    [statusCode |-> status_code, headers |-> default_headers,
     body |-> decimal_to_float_obj(body)]

\* error_body of create_error_response: 'details' is set when errors is truthy
error_body(message, errors) ==
    IF errors # None /\ errors # <<"list", <<>> >>
    THEN <<"dict", << <<"error", Str(message)>>, <<"details", errors>> >> >>
    ELSE <<"dict", << <<"error", Str(message)>> >> >>

create_error_response_obj(status_code, message, errors) ==
    create_response_obj(status_code, error_body(message, errors))

\* The leaves of a body: a Decimal, a str, None, an int, and a tuple that holds
\* a Decimal
Leaves ==
    {<<"Decimal", "21.5">>, Str("ok"), None, <<"int", "5">>,
     <<"tuple", << <<"Decimal", "21.5">> >> >>}

KeyNames == <<"data", "temperature", "device_status", "count">>

\* The other entries of a dict or list: Decimals and strs in turn
SiblingAt(i) ==
    IF i % 2 = 1 THEN <<"Decimal", IF i = 1 THEN "4.0" ELSE "7.25">> ELSE Str("room_001")

\* A list or dict of n entries with c as its j-th
ListWith(n, j, c) == <<"list", [i \in 1..n |-> IF i = j THEN c ELSE SiblingAt(i)]>>

DictWith(n, j, c) ==
    <<"dict", [i \in 1..n |-> <<KeyNames[i], IF i = j THEN c ELSE SiblingAt(i)>>]>>

\* The bodies nested at most d deep
RECURSIVE Objects(_)
Objects(d) ==
    IF d = 0 THEN Leaves
    ELSE Leaves \cup {<<"list", <<>> >>, <<"dict", <<>> >>}
         \cup {ListWith(n, j, c) : n \in 1..MaxItems, j \in 1..MaxItems, c \in Objects(d - 1)}
         \cup {DictWith(n, j, c) : n \in 1..MaxItems, j \in 1..MaxItems, c \in Objects(d - 1)}

StatusCodes == {200, 400, 404, 500}

\* The errors handed to create_error_response: none, an empty list, the texts
\* of validate_params, and a list that holds a Decimal
ErrorLists ==
    {None, <<"list", <<>> >>,
     <<"list", <<Str("Invalid status: OK")>> >>,
     <<"list", <<Str("Invalid status: OK"), <<"Decimal", "21.5">> >> >>}

\* vin is a body about to be handed to create_response, or a list of errors
\* about to be handed to create_error_response
InitResponse ==
    /\ \/ pc = "body" /\ vin \in Objects(MaxDepth)
       \/ pc = "errors" /\ vin \in ErrorLists
    /\ vout = None
    /\ module = "lambda_function"
    /\ table = {}
    /\ order = "asc"
    /\ event = None
    /\ fault = None
    /\ response = None
    /\ calls = <<>>

\* create_response(status_code, body) on the body vin
Respond(status_code) ==
    /\ pc = "body"
    /\ pc' = "responded"
    /\ vout' = [body |-> vin, response |-> create_response_obj(status_code, vin)]
    /\ UNCHANGED <<module, table, order, event, fault, response, calls, vin>>

\* create_error_response(status_code, message, errors) on the errors vin
RespondError(status_code, message) ==
    /\ pc = "errors"
    /\ pc' = "responded"
    /\ vout' = [body |-> error_body(message, vin),
                response |-> create_error_response_obj(status_code, message, vin)]
    /\ UNCHANGED <<module, table, order, event, fault, response, calls, vin>>

NextResponse ==
    \/ \E status_code \in StatusCodes : Respond(status_code)
    \/ \E status_code \in StatusCodes \ {200} :
          RespondError(status_code, "Invalid parameters")

SpecResponse == InitResponse /\ [][NextResponse]_vars

(***************************************************************************)
(* generate_test_data, with its configured constants, followed by the load *)
(* of its records into the table and a request served over them.  The     *)
(* random shuffle and the random error draws are choices fixed at the      *)
(* start of a run.  vin holds those choices; vout holds the generator's    *)
(* locals.  current_timestamp counts the seconds since START_TIME.         *)
(***************************************************************************)
NUM_SENSORS == 100

NUM_ROOMS == 10

SENSORS_PER_ROOM == 20

DATA_POINTS_PER_ROOM == 1000

\* f"{i:02d}" and f"{i:03d}"
format_02d(i) == IF i < 10 THEN "0" \o ToString(i) ELSE ToString(i)

format_03d(i) == IF i < 10 THEN "00" \o ToString(i) ELSE IF i < 100 THEN "0" \o ToString(i) ELSE ToString(i)

sensors == [i \in 1..NUM_SENSORS |-> "sensor_" \o format_02d(i)]

rooms == [i \in 1..NUM_ROOMS |-> "room_" \o format_03d(i)]

\* The orders random.shuffle may leave the sensors in: as they were, reversed,
\* and rotated by seven places
Shuffles == {"kept", "reversed", "rotated"}

shuffled(kind) ==
    [k \in 1..NUM_SENSORS |->
        IF kind = "kept" THEN sensors[k]
        ELSE IF kind = "reversed" THEN sensors[NUM_SENSORS + 1 - k]
        ELSE sensors[((k + 6) % NUM_SENSORS) + 1]]

\* The outcomes of random.random() < ERROR_RATE over a run: never, or for every
\* fourth record
ErrorDraws == {"never", "every_fourth"}

is_error(draws, n) == draws = "every_fourth" /\ n % 4 = 0

\* seq[start:end] of Python, with both ends clamped to the length
slice(seq, start, end) ==
    SubSeq(seq, (IF start < Len(seq) THEN start ELSE Len(seq)) + 1,
                IF end < Len(seq) THEN end ELSE Len(seq))

\* room_sensors that starts every room half a room after the one before
room_sensors_overlapping(shuffled_sensors, i) ==
    slice(shuffled_sensors, i * (SENSORS_PER_ROOM \div 2),
          i * (SENSORS_PER_ROOM \div 2) + SENSORS_PER_ROOM)

\* The sensors of the room at index i of rooms (from 0)
room_sensors(shuffled_sensors, i) ==
    slice(shuffled_sensors, i * SENSORS_PER_ROOM, i * SENSORS_PER_ROOM + SENSORS_PER_ROOM)

\* strftime("%Y-%m-%dT%H:%M:%SZ") of START_TIME plus a number of seconds
\* below one day
strftime(seconds) ==
    "2025-08-01T" \o format_02d(seconds \div 3600) \o ":"
        \o format_02d((seconds % 3600) \div 60) \o ":" \o format_02d(seconds % 60) \o "Z"

data_point(sensor, room, seconds, error) ==
    IF error THEN TelemetryRecord(sensor, room, Str(strftime(seconds)), None, "sensor_error")
    ELSE TelemetryRecord(sensor, room, Str(strftime(seconds)), <<"Decimal", "6.5">>, "ok")

cycles == DATA_POINTS_PER_ROOM \div SENSORS_PER_ROOM

\* The records the loop over the cycles and the sensors of one room appends:
\* one per sensor per cycle, until the room has DATA_POINTS_PER_ROOM
room_data(of_sensors, room, draws, seconds, generated) ==
    [k \in 1..(IF cycles * Len(of_sensors) < DATA_POINTS_PER_ROOM
               THEN cycles * Len(of_sensors) ELSE DATA_POINTS_PER_ROOM) |->
        data_point(of_sensors[((k - 1) % Len(of_sensors)) + 1], room,
                   seconds + k - 1, is_error(draws, generated + k))]

InitGenerate ==
    /\ vin \in [shuffle : Shuffles, draws : ErrorDraws]
    /\ vout = [room_sensor_mapping |-> <<>>, room_idx |-> 0, test_data |-> <<>>,
               current_timestamp |-> 0, total_generated |-> 0]
    /\ pc = "assigning"
    /\ module = "lambda_function"
    /\ table = {}
    /\ order = "asc"
    /\ event = NoEvent
    /\ fault = None
    /\ response = NoResponse
    /\ calls = <<>>

\* One pass of the loop that gives a room its sensors
AssignRoom ==
    /\ pc = "assigning"
    /\ vout' = [vout EXCEPT !.room_sensor_mapping =
                   Append(@, room_sensors(shuffled(vin.shuffle), Len(@)))]
    /\ pc' = IF Len(vout.room_sensor_mapping) + 1 = NUM_ROOMS THEN "generating" ELSE pc
    /\ UNCHANGED <<module, table, order, event, fault, response, calls, vin>>

\* One pass of the loop over the rooms that generates a room's records;
\* room_idx is the index (from 0) of the next room
GenerateRoom ==
    /\ pc = "generating"
    /\ \E new \in {room_data(vout.room_sensor_mapping[vout.room_idx + 1],
                              rooms[vout.room_idx + 1], vin.draws,
                              vout.current_timestamp, vout.total_generated)} :
          vout' = [vout EXCEPT !.test_data = @ \o new,
                               !.room_idx = @ + 1,
                               !.current_timestamp = @ + Len(new),
                               !.total_generated = @ + Len(new)]
    /\ pc' = IF vout.room_idx + 1 = NUM_ROOMS THEN "generated" ELSE pc
    /\ UNCHANGED <<module, table, order, event, fault, response, calls, vin>>

\* The generated records are written to the table
Load ==
    /\ pc = "generated"
    /\ table' = {vout.test_data[k] : k \in 1..Len(vout.test_data)}
    /\ pc' = "idle"
    /\ UNCHANGED <<module, order, event, fault, response, calls, vin, vout>>

\* GET /devices/{device_id}/rooms for the first or the last of the shuffled
\* sensors
AskRooms(device) ==
    /\ pc = "idle"
    /\ event' = Event("GET", "/devices/{device_id}/rooms", PathDict(Str(device), None),
                      NullParams)
    /\ \E res \in {handler(module, Store(table, order, None), event')} :
           /\ response' = IF res.ok THEN res.value ELSE [exc |-> res.exc]
           /\ calls' = res.calls
    /\ pc' = "done"
    /\ UNCHANGED <<module, table, order, fault, vin, vout>>

NextGenerate ==
    \/ AssignRoom
    \/ GenerateRoom
    \/ Load
    \/ \E k \in {1, NUM_SENSORS} : AskRooms(shuffled(vin.shuffle)[k])

SpecGenerate == InitGenerate /\ [][NextGenerate]_vars

(***************************************************************************)
(* Properties.                                                             *)
(***************************************************************************)
\* The (method, template) pair the router looks up for an event
RouteKey(ev) ==
    <<IF ev.httpMethod = Missing THEN "GET" ELSE ev.httpMethod,
      IF ev.resource = Missing THEN "/" ELSE ev.resource>>

\* The nine routes of the external interface
NineRoutes == {<<"GET", t>> : t \in Templates}

\* The path identifiers of a template
IdNames(resource) ==
    (IF HasDevice(resource) THEN {"device_id"} ELSE {})
    \cup (IF HasRoom(resource) THEN {"room_id"} ELSE {})

\* The bound path identifiers of an event that fail their validator
FailingIds(ev) ==
    {n \in IdNames(ev.resource) :
        /\ ev.pathParameters[n] # None
        /\ ~apply_validator(module, n, ev.pathParameters[n])}

\* Every path identifier of the event's template is bound and passes its validator
PathValid(ev) ==
    /\ ev.pathParameters.kind = "dict"
    /\ \A n \in IdNames(ev.resource) :
          /\ ev.pathParameters[n] # None
          /\ apply_validator(module, n, ev.pathParameters[n])

\* The query filters a template accepts
AcceptedFilters(resource) ==
    IF resource = "/rooms/{room_id}" THEN {"start_time", "end_time"}
    ELSE {"start_time", "end_time", "status"}

\* The present query filters of an event that fail their validator, in the
\* order the query parameters are iterated
FailingFilters(ev) ==
    SelectSeq(ev.queryStringParameters.items,
              LAMBDA kv : /\ kv[1] \in AcceptedFilters(ev.resource)
                          /\ kv[2] # None
                          /\ ~apply_validator(module, kv[1], kv[2]))

InvalidMessage(name, value) == Str("Invalid " \o name \o ": " \o value[1])

\* C1: every invocation ends with one envelope whose statusCode is 200, 400,
\* 404 or 500; a failure raised while handling the request, by the store call
\* or by reading path or query parameters that are not a mapping, does not
\* escape: the envelope is a 500 whose error message contains the failure's
\* message.
C1_EnvelopeAlways ==
    pc = "done" =>
        /\ DOMAIN response = {"statusCode", "headers", "body"}
        /\ response.statusCode \in {200, 400, 404, 500}
        /\ fault # None =>
              /\ response.statusCode = 500
              /\ contains(response.body.error[1], fault[1])
        /\ (RouteKey(event) \in NineRoutes /\ IdNames(event.resource) # {}
            /\ event.pathParameters.kind = "str") =>
              /\ response.statusCode = 500
              /\ contains(response.body.error[1], AttributeError)
        /\ (event.httpMethod = "GET" /\ event.resource \in FilterTemplates
            /\ PathValid(event) /\ event.queryStringParameters.kind = "str") =>
              /\ response.statusCode = 500
              /\ contains(response.body.error[1], AttributeError)

\* C1 witness: the store call of an invocation failed and the answer is a 500
C1_Witness ==
    /\ pc = "done"
    /\ fault # None
    /\ calls # <<>>
    /\ response.statusCode = 500

\* C2: a (method, template) pair that is not one of the registered ones, an
\* unknown template or a registered template under another method, is
\* answered 404 with an error body naming the pair, and the store is not
\* called.
C2_UnregisteredIs404 ==
    (pc = "done" /\ RouteKey(event) \notin NineRoutes) =>
        /\ response.statusCode = 404
        /\ DOMAIN response.body = {"error"}
        /\ response.body.error
             = Str("Route not found: " \o RouteKey(event)[1] \o " " \o RouteKey(event)[2])
        /\ calls = <<>>

\* C2 witness: a registered template requested with POST was answered 404
C2_Witness ==
    /\ pc = "done"
    /\ event.httpMethod = "POST"
    /\ event.resource = "/devices/{device_id}"
    /\ response.statusCode = 404

\* C3: a request for any of the nine (GET, template) routes is dispatched to
\* its handler and is never answered 404.
C3_NineRoutesRegistered ==
    (pc = "done" /\ RouteKey(event) \in NineRoutes) => response.statusCode # 404

\* C4: when a bound path identifier fails its validator the answer is 400
\* "Validation failed" with one "Invalid <name>: <value>" detail per failing
\* identifier and nothing else, and the store is not called.
C4_InvalidPathIs400 ==
    (/\ pc = "done"
     /\ RouteKey(event) \in NineRoutes
     /\ event.pathParameters.kind = "dict"
     /\ FailingIds(event) # {}) =>
        /\ response.statusCode = 400
        /\ DOMAIN response.body = {"error", "details"}
        /\ response.body.error = Str("Validation failed")
        /\ Len(response.body.details) > 0
        /\ Len(response.body.details) = Cardinality(FailingIds(event))
        /\ \A n \in FailingIds(event) :
              \E i \in 1..Len(response.body.details) :
                  response.body.details[i] = InvalidMessage(n, event.pathParameters[n])
        /\ calls = <<>>

\* C4 witness: both identifiers of a two-identifier route failed
C4_Witness ==
    /\ pc = "done"
    /\ event.httpMethod = "GET"
    /\ event.resource = "/devices/{device_id}/{room_id}"
    /\ event.pathParameters.kind = "dict"
    /\ Cardinality(FailingIds(event)) = 2
    /\ response.statusCode = 400

\* C5: on a route that accepts query filters, when the path identifiers are
\* valid and a present filter fails its validator, the answer is 400 with an
\* error message containing "validation failed" in any letter case and one
\* detail per failing filter in the order the query parameters are iterated,
\* and the store is not called.
C5_InvalidFilterIs400 ==
    (/\ pc = "done"
     /\ event.httpMethod = "GET"
     /\ event.resource \in FilterTemplates
     /\ PathValid(event)
     /\ event.queryStringParameters.kind = "dict"
     /\ FailingFilters(event) # <<>>) =>
        /\ response.statusCode = 400
        /\ contains(lower(response.body.error[1]), "validation failed")
        /\ "details" \in DOMAIN response.body
        /\ response.body.details
             = [i \in 1..Len(FailingFilters(event)) |->
                   InvalidMessage(FailingFilters(event)[i][1], FailingFilters(event)[i][2])]
        /\ calls = <<>>

\* C5 witness: three filters failed, the client having written status first
C5_Witness ==
    /\ pc = "done"
    /\ event.httpMethod = "GET"
    /\ event.resource = "/rooms/{room_id}/{device_id}"
    /\ PathValid(event)
    /\ event.queryStringParameters.kind = "dict"
    /\ Len(FailingFilters(event)) = 3
    /\ FailingFilters(event)[1][1] = "status"
    /\ response.statusCode = 400

\* C6: in every module, validate_status accepts a value if and only if it is
\* exactly one of ok, sensor_error, offline, maintenance; OK, SENSOR_ERROR,
\* broken and the empty string are rejected.
C6_StatusCaseSensitive ==
    pc = "validated" =>
        \A m \in Modules :
            /\ vout[m]["status"]
                 = (vin \in {Str("ok"), Str("sensor_error"), Str("offline"),
                             Str("maintenance")})
            /\ vin \in {Str("OK"), Str("SENSOR_ERROR"), Str("broken"), Str("")}
                 => ~vout[m]["status"]

\* A str of the form room_DDD, D a digit, whose number is greater than 0
RoomIdShape(v) ==
    /\ isinstance_str(v)
    /\ \E d1, d2, d3 \in Digits :
          /\ v[1] = "room_" \o d1 \o d2 \o d3
          /\ <<d1, d2, d3>> # <<"0", "0", "0">>

\* C7: in every module, validate_room_id accepts a value if and only if it is
\* room_ followed by three digits whose number is greater than 0; room_000,
\* room_1, room_0001, room01, ROOM_001, office_001, room_abc, room_+01, a
\* blank string and "_" are rejected.
C7_RoomIdThreeDigits ==
    pc = "validated" =>
        \A m \in Modules :
            /\ vout[m]["room_id"] = RoomIdShape(vin)
            /\ vin \in {Str("room_000"), Str("room_1"), Str("room_0001"), Str("room01"),
                        Str("ROOM_001"), Str("office_001"), Str("room_abc"),
                        Str("room_+01"), Str(" "), Str("_")}
                 => ~vout[m]["room_id"]

\* C8: in every module, validate_timestamp accepts a value if and only if it
\* ends with Z and, with Z replaced by +00:00, parses as a date-time; a
\* timestamp without the Z, with an invalid month, day or hour, or with other
\* separators is rejected.
C8_TimestampNeedsZ ==
    pc = "validated" =>
        \A m \in Modules :
            /\ vout[m]["start_time"]
                 = (/\ isinstance_str(vin)
                    /\ endswith(vin[1], "Z")
                    /\ fromisoformat_ok(replace(vin[1], "Z", "+00:00")))
            /\ vout[m]["end_time"] = vout[m]["start_time"]
            /\ vin \in {Str("2025-08-01T10:00:00"), Str("2025-13-01T00:00:00Z"),
                        Str("2025-02-30T10:00:00Z"), Str("2025-08-01T25:00:00Z"),
                        Str("2025/08/01 10:00:00"), Str("invalid_timestamp")}
                 => ~vout[m]["start_time"]

\* The text is an integer literal without underscores: blanks, an optional
\* sign, digits, blanks; and its value is greater than 0
PositiveIntegerText(t) ==
    \E i, j \in 1..Len(t) :
        /\ i <= j
        /\ \A k \in 1..Len(t) :
              \/ (k < i \/ k > j) /\ CharAt(t, k) = " "
              \/ k = i /\ i < j /\ CharAt(t, k) = "+"
              \/ i <= k /\ k <= j /\ CharAt(t, k) \in Digits
        /\ \E k \in i..j : CharAt(t, k) \in Digits \ {"0"}

\* A str with exactly one "_", something before it and a positive integer
\* after it
DeviceIdShape(v) ==
    /\ isinstance_str(v)
    /\ \E p \in 1..Len(v[1]) :
          /\ CharAt(v[1], p) = "_"
          /\ \A q \in 1..Len(v[1]) : CharAt(v[1], q) = "_" => q = p
          /\ p > 1
          /\ PositiveIntegerText(SubSeq(v[1], p + 1, Len(v[1])))

\* C9: in every module, validate_device_id accepts a value if and only if it
\* holds exactly one "_", the part before it is not empty and the part after
\* it parses as an integer greater than 0, of any number of digits;
\* sensor01, sensor_01_temp, sensor_00, sensor_-1, sensor_abc and _01 are
\* rejected.
C9_DeviceIdShape ==
    pc = "validated" =>
        \A m \in Modules :
            /\ vout[m]["device_id"] = DeviceIdShape(vin)
            /\ vin \in {Str("sensor01"), Str("sensor_01_temp"), Str("sensor_00"),
                        Str("sensor_-1"), Str("sensor_abc"), Str("_01")}
                 => ~vout[m]["device_id"]

\* C9 witness: identifiers with one digit and with three were accepted, and
\* sensor_00 was rejected, by the validators of both modules
C9_Witness ==
    /\ pc = "validated"
    /\ vin \in {Str("thermostat_5"), Str("sensor_200")}
    /\ \A m \in Modules : vout[m]["device_id"]

\* The event that asks the mirrored route for the same identifiers and filters
Mirrored(ev) ==
    Event(ev.httpMethod,
          IF ev.resource = "/devices/{device_id}/{room_id}"
          THEN "/rooms/{room_id}/{device_id}" ELSE "/devices/{device_id}/{room_id}",
          ev.pathParameters, ev.queryStringParameters)

\* C10: when one of GET /devices/{device_id}/{room_id} and
\* GET /rooms/{room_id}/{device_id} answered 200, the other one, asked for
\* the same device_id, room_id, start_time, end_time and status against the
\* same store contents, answers 200 with the same data and the same count.
C10_MirroredRoutesAgree ==
    (/\ pc = "done"
     /\ event.httpMethod = "GET"
     /\ event.resource \in {"/devices/{device_id}/{room_id}",
                            "/rooms/{room_id}/{device_id}"}
     /\ response.statusCode = 200) =>
        \E other \in
              {handler(module, Store(table, order, fault), Mirrored(event)).value} :
            /\ other.statusCode = 200
            /\ other.body.data = response.body.data
            /\ other.body.count = response.body.count

\* C10 witness: the device route returned one record while the store holds
\* another record of the same device in another room
C10_Witness ==
    /\ pc = "done"
    /\ event.httpMethod = "GET"
    /\ event.resource = "/devices/{device_id}/{room_id}"
    /\ response.statusCode = 200
    /\ response.body.count = 1
    /\ \E r \in table : /\ r.device_id = event.pathParameters.device_id
                        /\ r.room_id # event.pathParameters.room_id

\* The two routes that bind both a device and a room
IntersectionTemplates ==
    {"/devices/{device_id}/{room_id}", "/rooms/{room_id}/{device_id}"}

\* The query parameters are a mapping, or absent, and every present filter the
\* template accepts passes its validator
FiltersValid(ev) ==
    /\ ev.queryStringParameters.kind # "str"
    /\ FailingFilters(ev) = <<>>

\* C11: on both device+room intersection routes every returned record has the
\* requested device_id and the requested room_id; and for a valid device and
\* room of which the table holds no record, the store answering, the response
\* is 200 with count 0 and data [], not an error.
C11_IntersectionOnly ==
    (/\ pc = "done"
     /\ event.httpMethod = "GET"
     /\ event.resource \in IntersectionTemplates) =>
        /\ response.statusCode = 200 =>
              \A i \in 1..Len(response.body.data) :
                  /\ response.body.data[i].device_id = event.pathParameters.device_id
                  /\ response.body.data[i].room_id = event.pathParameters.room_id
        /\ (/\ PathValid(event)
            /\ FiltersValid(event)
            /\ fault = None
            /\ ~\E r \in table : /\ r.device_id = event.pathParameters.device_id
                                 /\ r.room_id = event.pathParameters.room_id) =>
              /\ response.statusCode = 200
              /\ DOMAIN response.body \subseteq {"device_id", "room_id", "data", "count"}
              /\ response.body.count = 0
              /\ response.body.data = <<>>

\* C11 witness: the device and the room each have a record in the table, but
\* none in common, and the device route answered 200 with nothing
C11_Witness ==
    /\ pc = "done"
    /\ event.httpMethod = "GET"
    /\ event.resource = "/devices/{device_id}/{room_id}"
    /\ PathValid(event)
    /\ \E r \in table : r.device_id = event.pathParameters.device_id
    /\ \E r \in table : r.room_id = event.pathParameters.room_id
    /\ response.statusCode = 200
    /\ response.body.count = 0
    /\ response.body.data = <<>>

\* The value the client gave for a query parameter, None when it gave none
Given(ev, name) == dict_get(ev.queryStringParameters.items, name)

\* The timestamp lies within the bounds the client gave, each bound inclusive
WithinGivenBounds(ev, ts) ==
    /\ Given(ev, "start_time") # None => str_le(Given(ev, "start_time")[1], ts[1])
    /\ Given(ev, "end_time") # None => str_le(ts[1], Given(ev, "end_time")[1])

\* The record has the identifiers the path binds
OfRequestedIds(ev, r) == \A n \in IdNames(ev.resource) : r[n] = ev.pathParameters[n]

\* The record has the status the client gave, on a route that accepts status
OfRequestedStatus(ev, r) ==
    ("status" \in AcceptedFilters(ev.resource) /\ Given(ev, "status") # None)
        => r.device_status = Given(ev, "status")

\* C12: on every route that accepts a time range the store is asked for the
\* timestamps between start_time and end_time when both are given, from
\* start_time on when only it is given, up to end_time when only it is
\* given, and for all of them when neither is given; every returned record's
\* timestamp lies within the given bounds, and every record of the requested
\* identifiers and status with a timestamp within the bounds, those exactly
\* on a bound included, is returned.
C12_TimeRange ==
    (/\ pc = "done"
     /\ event.httpMethod = "GET"
     /\ event.resource \in FilterTemplates
     /\ calls # <<>>) =>
        /\ calls[1].KeyConditionExpression.range
             = (IF Given(event, "start_time") # None /\ Given(event, "end_time") # None
                  THEN <<"between", Given(event, "start_time"), Given(event, "end_time")>>
                ELSE IF Given(event, "start_time") # None
                  THEN <<"gte", Given(event, "start_time"), None>>
                ELSE IF Given(event, "end_time") # None
                  THEN <<"lte", None, Given(event, "end_time")>>
                ELSE <<"none", None, None>>)
        /\ response.statusCode = 200 =>
              /\ \A i \in 1..Len(response.body.data) :
                    WithinGivenBounds(event, response.body.data[i].timestamp)
              /\ \A r \in table :
                    (/\ OfRequestedIds(event, r)
                     /\ OfRequestedStatus(event, r)
                     /\ WithinGivenBounds(event, r.timestamp)) =>
                        \E i \in 1..Len(response.body.data) :
                            /\ response.body.data[i].device_id = r.device_id
                            /\ response.body.data[i].timestamp = r.timestamp

\* C12 witness: start_time and end_time are the same instant; the record at
\* that instant was returned and the device's other record was not
C12_Witness ==
    /\ pc = "done"
    /\ event.httpMethod = "GET"
    /\ event.resource = "/devices/{device_id}"
    /\ Given(event, "start_time") = T2
    /\ Given(event, "end_time") = T2
    /\ response.statusCode = 200
    /\ response.body.count = 1
    /\ response.body.data[1].timestamp = T2
    /\ \E r \in table : /\ r.device_id = event.pathParameters.device_id
                        /\ r.timestamp # T2

\* The routes that apply the status filter
StatusTemplates == FilterTemplates \ {"/rooms/{room_id}"}

\* The data-model rule: temperature is null exactly when device_status is
\* sensor_error
DataModelRule(tbl) ==
    \A r \in tbl : (r.temperature = None) = (r.device_status = Str("sensor_error"))

\* The attributes a FilterExpression tests
FilterAttrs(filter) == {filter[i][1] : i \in 1..Len(filter)}

\* C13: on the routes that accept status, the key condition names only the
\* partition key and the timestamp, never device_status; when status is
\* given the filter expression holds device_status = status exactly once and
\* every returned record has that device_status, with a null temperature when
\* the status is sensor_error and the table satisfies the data-model rule;
\* when status is absent the filter expression does not test device_status
\* and every record of the requested identifiers within the time bounds is
\* returned, whatever its status.
C13_StatusPostFilter ==
    (/\ pc = "done"
     /\ event.httpMethod = "GET"
     /\ event.resource \in StatusTemplates
     /\ calls # <<>>) =>
        /\ calls[1].KeyConditionExpression.attr \in {"device_id", "room_id"}
        /\ DOMAIN calls[1].KeyConditionExpression = {"attr", "value", "range"}
        /\ calls[1].KeyConditionExpression.value
             = event.pathParameters[calls[1].KeyConditionExpression.attr]
        /\ Given(event, "status") # None =>
              /\ Cardinality({i \in 1..Len(calls[1].FilterExpression) :
                                 calls[1].FilterExpression[i][1] = "device_status"}) = 1
              /\ \E i \in 1..Len(calls[1].FilterExpression) :
                    calls[1].FilterExpression[i] = <<"device_status", Given(event, "status")>>
              /\ response.statusCode = 200 =>
                    \A i \in 1..Len(response.body.data) :
                        /\ response.body.data[i].device_status = Given(event, "status")
                        /\ (Given(event, "status") = Str("sensor_error")
                            /\ DataModelRule(table)) =>
                               response.body.data[i].temperature = None
        /\ Given(event, "status") = None =>
              /\ "device_status" \notin FilterAttrs(calls[1].FilterExpression)
              /\ response.statusCode = 200 =>
                    \A r \in table :
                        (OfRequestedIds(event, r) /\ WithinGivenBounds(event, r.timestamp))
                            => \E i \in 1..Len(response.body.data) :
                                  /\ response.body.data[i].device_id = r.device_id
                                  /\ response.body.data[i].timestamp = r.timestamp

\* C13 witness: status=sensor_error returned the device's one failing
\* reading, with a null temperature, and not its healthy reading
C13_Witness ==
    /\ pc = "done"
    /\ event.httpMethod = "GET"
    /\ event.resource = "/devices/{device_id}"
    /\ Given(event, "status") = Str("sensor_error")
    /\ response.statusCode = 200
    /\ response.body.count = 1
    /\ response.body.data[1].device_status = Str("sensor_error")
    /\ response.body.data[1].temperature = None
    /\ \E r \in table : /\ r.device_id = event.pathParameters.device_id
                        /\ r.device_status = Str("ok")

\* The names under which a body carries its payload array
PayloadNames == {"data", "devices", "rooms"}

\* C14: every 200 response body carries count and exactly one payload array,
\* data, devices or rooms, and count equals the length of that array.
C14_CountIsLength ==
    (pc = "done" /\ response.statusCode = 200) =>
        /\ "count" \in DOMAIN response.body
        /\ Cardinality(PayloadNames \cap DOMAIN response.body) = 1
        /\ \A k \in PayloadNames \cap DOMAIN response.body :
              response.body.count = Len(response.body[k])

\* C14 witness: the table holds two records of one device, and the device
\* listing answered with count 1
C14_Witness ==
    /\ pc = "done"
    /\ event.httpMethod = "GET"
    /\ event.resource = "/devices"
    /\ response.statusCode = 200
    /\ Cardinality(table) = 2
    /\ response.body.count = 1
    /\ Len(response.body.devices) = 1

\* The four routes that list identifiers
IdListingTemplates ==
    {"/devices", "/rooms", "/rooms/{room_id}/devices", "/devices/{device_id}/rooms"}

\* The attribute a listing route lists
ListedAttr(resource) ==
    IF resource \in {"/devices", "/rooms/{room_id}/devices"} THEN "device_id"
    ELSE "room_id"

\* The identifiers a listing body carries, in the order it carries them
ListedIds(resource, body) ==
    CASE resource = "/devices" -> body.devices
      [] resource = "/rooms" -> body.rooms
      [] resource = "/devices/{device_id}/rooms" -> body.rooms
      [] resource = "/rooms/{room_id}/devices" ->
             [i \in 1..Len(body.devices) |-> body.devices[i].device_id]

\* C15: the payload of a 200 response of the four listing routes holds its
\* identifiers in strictly ascending order by code point, hence none of them
\* twice, in whatever order and however many times the store returned them;
\* and it holds every identifier the store returned.
C15_ListingSortedUnique ==
    (/\ pc = "done"
     /\ event.httpMethod = "GET"
     /\ event.resource \in IdListingTemplates
     /\ response.statusCode = 200) =>
        /\ \A i \in 1..(Len(ListedIds(event.resource, response.body)) - 1) :
              str_lt(ListedIds(event.resource, response.body)[i][1],
                     ListedIds(event.resource, response.body)[i + 1][1])
        /\ \A i, j \in 1..Len(ListedIds(event.resource, response.body)) :
              i # j => ListedIds(event.resource, response.body)[i]
                         # ListedIds(event.resource, response.body)[j]
        /\ \A r \in table :
              OfRequestedIds(event, r) =>
                  \E i \in 1..Len(ListedIds(event.resource, response.body)) :
                      ListedIds(event.resource, response.body)[i]
                        = r[ListedAttr(event.resource)]

\* C15 witness: the store returns the devices in descending order, one of
\* them twice, and the listing holds the two devices once each, ascending
C15_Witness ==
    /\ pc = "done"
    /\ event.httpMethod = "GET"
    /\ event.resource = "/devices"
    /\ response.statusCode = 200
    /\ order = "desc"
    /\ Cardinality(table) = 3
    /\ response.body.devices = <<Str("fridge_02"), Str("sensor_1")>>

\* A record of the table as a response body carries it
AsReturned(r) == [a \in DOMAIN r |-> decimal_leaf(r[a])]

\* The members of a sequence
Members(s) == {s[i] : i \in 1..Len(s)}

\* C16: GET / asks the store for a scan without key condition, filter or
\* projection and, the store answering, returns every record of the table
\* once, so that count is the number of records in the table; GET /devices
\* and GET /rooms list exactly the distinct device_ids and room_ids present in
\* the table.
C16_RootReturnsAll ==
    (pc = "done" /\ event.httpMethod \in {"GET", Missing} /\ fault = None) =>
        /\ event.resource \in {"/", Missing} =>
              /\ response.statusCode = 200
              /\ Len(calls) = 1
              /\ calls[1].op = "scan"
              /\ calls[1].FilterExpression = <<>>
              /\ calls[1].ProjectionExpression = "ALL"
              /\ response.body.count = Cardinality(table)
              /\ Len(response.body.data) = Cardinality(table)
              /\ Members(response.body.data) = {AsReturned(r) : r \in table}
        /\ event.resource = "/devices" =>
              /\ response.statusCode = 200
              /\ Members(response.body.devices) = {r.device_id : r \in table}
        /\ event.resource = "/rooms" =>
              /\ response.statusCode = 200
              /\ Members(response.body.rooms) = {r.room_id : r \in table}

\* C16 witness: the table holds three records of two devices with three
\* different statuses, and GET / returned the three of them
C16_Witness ==
    /\ pc = "done"
    /\ event.httpMethod = "GET"
    /\ event.resource = "/"
    /\ response.statusCode = 200
    /\ response.body.count = 3
    /\ Cardinality({response.body.data[i].device_id : i \in 1..3}) = 2
    /\ Cardinality({response.body.data[i].device_status : i \in 1..3}) = 3

WithoutStatus(ev) ==
    Event(ev.httpMethod, ev.resource, ev.pathParameters,
          [kind |-> "dict",
           items |-> SelectSeq(ev.queryStringParameters.items,
                               LAMBDA kv : kv[1] # "status")])

\* C18: on GET /rooms/{room_id} a status query parameter, valid or not, is
\* neither validated nor applied: no detail of a 400 names status, the
\* request sent to the store carries no filter, and the response is the one
\* the same request without status gets.
C18_RoomIgnoresStatus ==
    (/\ pc = "done"
     /\ event.httpMethod = "GET"
     /\ event.resource = "/rooms/{room_id}"
     /\ event.queryStringParameters.kind = "dict"
     /\ Given(event, "status") # None) =>
        /\ \E other \in
              {handler(module, Store(table, order, fault), WithoutStatus(event)).value} :
              other = response
        /\ (PathValid(event) /\ FiltersValid(event) /\ fault = None) =>
              response.statusCode = 200
        /\ "details" \in DOMAIN response.body =>
              \A i \in 1..Len(response.body.details) :
                  ~contains(response.body.details[i][1], "status")
        /\ calls # <<>> => calls[1].FilterExpression = <<>>

\* C18 witness: a request with status=OK, which validate_status rejects and
\* no record has, was answered 200 with the room's two records
C18_Witness ==
    /\ pc = "done"
    /\ event.httpMethod = "GET"
    /\ event.resource = "/rooms/{room_id}"
    /\ Given(event, "status") = Str("OK")
    /\ response.statusCode = 200
    /\ response.body.count = 2
    /\ \A i \in 1..2 : response.body.data[i].device_status # Str("OK")

\* The entries of a dict that must produce an error under module m: the value
\* is not None, the name has a validator, and the validator returns false
FailingEntries(m, params, validators) ==
    SelectSeq(params, LAMBDA kv : /\ kv[2] # None
                                  /\ kv[1] \in validators
                                  /\ ~apply_validator(m, kv[1], kv[2]))

\* str(value) of an entry's value
ValueText(v) == IF isinstance_str(v) THEN v[1] ELSE v[2]

\* C19: in every module, the errors validate_params returns are exactly one
\* "Invalid <name>: <value>" for each entry whose value is not None, whose
\* name has a registered validator and whose validator returns false, in the
\* iteration order of the entries; an entry with value None or without a
\* registered validator produces none; and the flag is true if and only if
\* the error list is empty.
C19_ValidateParams ==
    pc = "params_validated" =>
        \A m \in Modules :
            /\ vout[m][2]
                 = [i \in 1..Len(FailingEntries(m, vin.params, vin.validators)) |->
                       Str("Invalid "
                           \o FailingEntries(m, vin.params, vin.validators)[i][1]
                           \o ": "
                           \o ValueText(FailingEntries(m, vin.params, vin.validators)[i][2]))]
            /\ vout[m][1] = (vout[m][2] = <<>>)
            /\ \A i \in 1..Len(vin.params) :
                  (vin.params[i][2] = None \/ vin.params[i][1] \notin vin.validators)
                      => \A k \in 1..Len(vout[m][2]) :
                            ~contains(vout[m][2][k][1], "Invalid " \o vin.params[i][1] \o ":")

\* C19 witness: of three entries the first has value None under a registered
\* name, the second has no registered validator, and the third fails its
\* validator: one error, for the third
C19_Witness ==
    /\ pc = "params_validated"
    /\ Len(vin.params) = 3
    /\ vin.params[1][2] = None
    /\ vin.params[1][1] \in vin.validators
    /\ vin.params[2][1] \notin vin.validators
    /\ vin.params[2][2] # None
    /\ vout["lambda_function"] = <<FALSE, <<Str("Invalid room_id: room_1")>> >>

\* The access path of a request to the store: operation, index and partition
\* key attribute
AccessPath(req) == <<req.op, req.IndexName, req.KeyConditionExpression.attr>>

\* C20: the access path follows from the path identifiers the route binds.
\* None bound: a scan of the table with no key condition and no filter.
\* device_id only: a query of the primary table keyed on the device_id, with
\* no filter on room_id.  room_id only: a query of the secondary index keyed
\* on the room_id, with no filter.  Both bound: /devices/{device_id}/{room_id}
\* queries the primary table keyed on the device_id and filters on room_id
\* equal to the bound room; /rooms/{room_id}/{device_id} queries the secondary
\* index keyed on the room_id and filters on device_id equal to the bound
\* device.  This holds for every combination of query parameters.
C20_AccessPath ==
    (/\ pc = "done"
     /\ event.httpMethod = "GET"
     /\ event.resource \in Templates
     /\ calls # <<>>) =>
        /\ Len(calls) = 1
        /\ IdNames(event.resource) = {} =>
              /\ AccessPath(calls[1]) = <<"scan", "table", "none">>
              /\ calls[1].KeyConditionExpression.range = NoRange
              /\ calls[1].FilterExpression = <<>>
        /\ IdNames(event.resource) = {"device_id"} =>
              /\ AccessPath(calls[1]) = <<"query", "table", "device_id">>
              /\ calls[1].KeyConditionExpression.value = event.pathParameters.device_id
              /\ FilterAttrs(calls[1].FilterExpression) \subseteq {"device_status"}
        /\ IdNames(event.resource) = {"room_id"} =>
              /\ AccessPath(calls[1]) = <<"query", GSI_NAME, "room_id">>
              /\ calls[1].KeyConditionExpression.value = event.pathParameters.room_id
              /\ calls[1].FilterExpression = <<>>
        /\ event.resource = "/devices/{device_id}/{room_id}" =>
              /\ AccessPath(calls[1]) = <<"query", "table", "device_id">>
              /\ calls[1].KeyConditionExpression.value = event.pathParameters.device_id
              /\ calls[1].FilterExpression[1] = <<"room_id", event.pathParameters.room_id>>
              /\ FilterAttrs(calls[1].FilterExpression) \subseteq {"room_id", "device_status"}
        /\ event.resource = "/rooms/{room_id}/{device_id}" =>
              /\ AccessPath(calls[1]) = <<"query", GSI_NAME, "room_id">>
              /\ calls[1].KeyConditionExpression.value = event.pathParameters.room_id
              /\ calls[1].FilterExpression[1]
                   = <<"device_id", event.pathParameters.device_id>>
              /\ FilterAttrs(calls[1].FilterExpression)
                   \subseteq {"device_id", "device_status"}

\* C20 witness: the device route of the intersection, asked with a time range
\* and a status, read the primary table by device_id
C20_Witness ==
    /\ pc = "done"
    /\ event.httpMethod = "GET"
    /\ event.resource = "/devices/{device_id}/{room_id}"
    /\ Given(event, "start_time") # None
    /\ Given(event, "end_time") # None
    /\ Given(event, "status") # None
    /\ response.statusCode = 200
    /\ response.body.count = 1
    /\ AccessPath(calls[1]) = <<"query", "table", "device_id">>

\* C21: every invocation sends at most one request to the store; an
\* invocation answered 400 or 404 sends none; and when the store call fails
\* the 500 is returned after that one call, with no second request.
C21_AtMostOneStoreCall ==
    pc = "done" =>
        /\ Len(calls) <= 1
        /\ response.statusCode \in {400, 404} => calls = <<>>
        /\ response.statusCode = 200 => Len(calls) = 1
        /\ fault # None =>
              /\ Len(calls) = 1
              /\ response.statusCode = 500

\* C21 witness: the one query of a filtered device request failed and the
\* answer is 500
C21_Witness ==
    /\ pc = "done"
    /\ event.httpMethod = "GET"
    /\ event.resource = "/devices/{device_id}"
    /\ Given(event, "status") = Str("ok")
    /\ fault # None
    /\ Len(calls) = 1
    /\ calls[1].op = "query"
    /\ response.statusCode = 500

C23_ValidatorsTotal ==
    [][pc' = "validated" =>
          /\ UNCHANGED <<module, table, order, event, fault, response, calls, vin>>
          /\ \A n \in ValidatorNames :
                /\ vout'["lambda_function"][n] \in BOOLEAN
                /\ (~isinstance_str(vin) \/ vin = Str("")) => ~vout'["lambda_function"][n]
          /\ (isinstance_str(vin) /\ str_count(vin[1], "_") # 1) =>
                /\ ~vout'["lambda_function"]["device_id"]
                /\ ~vout'["lambda_function"]["room_id"]]_vars

\* C23 witness: the validators were applied to a value that is not a str
\* and each returned FALSE
C23_Witness ==
    /\ pc = "validated"
    /\ vin = <<"int", "5">>
    /\ \A n \in ValidatorNames : vout["lambda_function"][n] = FALSE


\* The value of the i-th entry of a dict or the i-th element of a list
Child(obj, i) == IF isinstance_dict(obj) THEN obj[2][i][2] ELSE obj[2][i]

\* The positions of an object: the sequences of indices that lead from it,
\* through dicts and lists, to a value inside it
RECURSIVE PathsOf(_)
PathsOf(obj) ==
    {<<>>} \cup
    IF isinstance_dict(obj) \/ isinstance_list(obj)
    THEN UNION {{<<i>> \o q : q \in PathsOf(Child(obj, i))} : i \in 1..Len(obj[2])}
    ELSE {}

RECURSIVE At(_, _)
At(obj, path) == IF path = <<>> THEN obj ELSE At(Child(obj, Head(path)), Tail(path))

\* b stands where a stood: a dict with the same keys in the same order, a list
\* of the same length, the float of a Decimal, or the same leaf
StandsFor(a, b) ==
    IF isinstance_dict(a)
    THEN /\ isinstance_dict(b)
         /\ Len(b[2]) = Len(a[2])
         /\ \A i \in 1..Len(a[2]) : b[2][i][1] = a[2][i][1]
    ELSE IF isinstance_list(a)
    THEN isinstance_list(b) /\ Len(b[2]) = Len(a[2])
    ELSE IF isinstance_Decimal(a)
    THEN b = <<"float", a[2]>>
    ELSE b = a

\* C24: the body of every response, whatever its status code and whether it
\* was built by create_response or by create_error_response, is the body that
\* was handed in with the same positions, the same dict keys and list
\* lengths at each, every Decimal reached through dicts and lists replaced by
\* a float of the same number, and every other leaf as it was.
C24_DecimalToFloatShape ==
    pc = "responded" =>
        /\ PathsOf(vout.response.body) = PathsOf(vout.body)
        /\ \A path \in PathsOf(vout.body) :
              StandsFor(At(vout.body, path), At(vout.response.body, path))

\* C24 witness: the body {'data': [Decimal('4.0'), Decimal('21.5')],
\* 'temperature': 'room_001'} was answered with status 200 and both Decimals
\* inside the list became floats
C24_Witness ==
    /\ pc = "responded"
    /\ vout.response.statusCode = 200
    /\ vout.body = DictWith(2, 1, ListWith(2, 2, <<"Decimal", "21.5">>))
    /\ vout.response.body =
          <<"dict", << <<"data", <<"list", << <<"float", "4.0">>, <<"float", "21.5">> >> >> >>,
                       <<"temperature", Str("room_001")>> >> >>

\* The (device_id, room_id) pairs that occur in a sequence of records
Placements(data) == {<<data[k].device_id, data[k].room_id>> : k \in 1..Len(data)}

\* C25: once generate_test_data has returned, every device_id of its records
\* occurs with exactly one room_id and no sensor was given to two rooms; and
\* GET /devices/{device_id}/rooms, served over the table loaded with those
\* records, answers 200 with exactly one room, the room the device has
\* records in.
C25_OneRoomPerDevice ==
    /\ pc \in {"generated", "idle"} =>
          /\ \E placed \in {Placements(vout.test_data)} :
                \A a \in placed : \A b \in placed : a[1] = b[1] => a[2] = b[2]
          /\ \A i \in 1..NUM_ROOMS : \A j \in 1..NUM_ROOMS :
                i # j =>
                    \A k \in 1..Len(vout.room_sensor_mapping[i]) :
                        \A l \in 1..Len(vout.room_sensor_mapping[j]) :
                            vout.room_sensor_mapping[i][k] # vout.room_sensor_mapping[j][l]
    /\ pc = "done" =>
          /\ response.statusCode = 200
          /\ response.body.count = 1
          /\ Len(response.body.rooms) = 1
          /\ \E r \in table : /\ r.device_id = event.pathParameters.device_id
                               /\ response.body.rooms = <<r.room_id>>

\* C25 witness: the sensors were left in their order by the shuffle, the table
\* holds the generated records, and GET /devices/sensor_100/rooms was
\* answered with the one room room_005
C25_Witness ==
    /\ pc = "done"
    /\ vin.shuffle = "kept"
    /\ event.pathParameters.device_id = Str("sensor_100")
    /\ response.statusCode = 200
    /\ response.body.rooms = <<Str("room_005")>>
    /\ Cardinality(table) = Len(vout.test_data)

\* C26: once generate_test_data has returned, each of the NUM_ROOMS rooms has
\* records of exactly SENSORS_PER_ROOM distinct sensors, exactly
\* DATA_POINTS_PER_ROOM records, and the records number
\* NUM_ROOMS * DATA_POINTS_PER_ROOM in all.
C26_RoomsFilled ==
    pc = "generated" =>
        /\ \A i \in 1..NUM_ROOMS :
              /\ Cardinality({vout.room_sensor_mapping[i][k] :
                                 k \in 1..Len(vout.room_sensor_mapping[i])}) = SENSORS_PER_ROOM
              /\ Cardinality({k \in 1..Len(vout.test_data) :
                                 vout.test_data[k].room_id = Str(rooms[i])}) = DATA_POINTS_PER_ROOM
              /\ Cardinality({vout.test_data[k].device_id :
                                 k \in {l \in 1..Len(vout.test_data) :
                                           vout.test_data[l].room_id = Str(rooms[i])}})
                    = SENSORS_PER_ROOM
        /\ Len(vout.test_data) = NUM_ROOMS * DATA_POINTS_PER_ROOM
        /\ vout.total_generated = NUM_ROOMS * DATA_POINTS_PER_ROOM

\* C27: on a route that accepts query filters, when a bound path identifier
\* fails its validator the answer is 400 "Validation failed" and every detail
\* is the message of a failing path identifier, none names start_time,
\* end_time or status, whatever the query parameters are; and an answer
\* "Query parameter validation failed" is given only when no path identifier
\* fails.
C27_PathBeforeQuery ==
    (/\ pc = "done"
     /\ event.httpMethod = "GET"
     /\ event.resource \in FilterTemplates
     /\ event.pathParameters.kind = "dict") =>
        /\ FailingIds(event) # {} =>
              /\ response.statusCode = 400
              /\ response.body.error = Str("Validation failed")
              /\ \A i \in 1..Len(response.body.details) :
                    /\ \E n \in FailingIds(event) :
                          response.body.details[i] = InvalidMessage(n, event.pathParameters[n])
                    /\ \A f \in FilterNames :
                          ~contains(response.body.details[i][1], "Invalid " \o f \o ":")
        /\ (/\ response.statusCode = 400
            /\ response.body.error = Str("Query parameter validation failed")) =>
              FailingIds(event) = {}

\* C27 witness: GET /devices/{device_id} with a device_id that fails its
\* validator and a status filter that fails its validator too, answered 400
\* "Validation failed"
C27_Witness ==
    /\ pc = "done"
    /\ event.httpMethod = "GET"
    /\ event.resource = "/devices/{device_id}"
    /\ event.pathParameters.kind = "dict"
    /\ FailingIds(event) = {"device_id"}
    /\ event.queryStringParameters.kind = "dict"
    /\ FailingFilters(event) # <<>>
    /\ response.statusCode = 400
    /\ response.body.error = Str("Validation failed")
    /\ Len(response.body.details) = 1

\* The path identifiers of the event's template that the event does not bind
AbsentIds(ev) == {n \in IdNames(ev.resource) : ev.pathParameters[n] = None}

\* The value a request to the store carries for a path identifier: in its key
\* condition or in its filter
CarriedValues(req, n) ==
    (IF req.KeyConditionExpression.attr = n THEN {req.KeyConditionExpression.value} ELSE {})
    \cup {req.FilterExpression[i][2] :
            i \in {j \in 1..Len(req.FilterExpression) : req.FilterExpression[j][1] = n}}

\* C28: on a route with path identifiers, when the event's pathParameters is
\* missing or null or lacks an identifier, no detail of a 400 names that
\* identifier; and when nothing that is present fails validation the answer
\* is not 400: the handler sends one request to the store, carrying None as
\* the value of the absent identifier.
C28_AbsentPathIdSkipped ==
    (/\ pc = "done"
     /\ event.httpMethod = "GET"
     /\ event.resource \in Templates
     /\ event.pathParameters.kind \in {"dict", "null"}
     /\ AbsentIds(event) # {}) =>
        /\ response.statusCode = 400 =>
              \A n \in AbsentIds(event) : \A i \in 1..Len(response.body.details) :
                  ~contains(response.body.details[i][1], "Invalid " \o n \o ":")
        /\ (/\ FailingIds(event) = {}
            /\ event.queryStringParameters.kind # "str"
            /\ FailingFilters(event) = <<>>) =>
              /\ response.statusCode # 400
              /\ Len(calls) = 1
              /\ \A n \in AbsentIds(event) : CarriedValues(calls[1], n) = {None}

\* C28 witness: GET /devices/{device_id}/{room_id} with a valid device_id and
\* no room_id, answered 200 after one query whose filter tests room_id
\* against None
C28_Witness ==
    /\ pc = "done"
    /\ event.httpMethod = "GET"
    /\ event.resource = "/devices/{device_id}/{room_id}"
    /\ event.pathParameters = PathDict(Str("sensor_1"), None)
    /\ response.statusCode = 200
    /\ Len(calls) = 1
    /\ calls[1].FilterExpression[1] = <<"room_id", None>>

\* C29: on a route that accepts query filters, when the path identifiers
\* and the given filters pass validation and the given start_time is later
\* than the given end_time, the answer is not 400: one request goes to the
\* store, with the range between(start_time, end_time) in the order given.
C29_ReversedBoundsPassed ==
    (/\ pc = "done"
     /\ event.httpMethod = "GET"
     /\ event.resource \in FilterTemplates
     /\ PathValid(event)
     /\ event.queryStringParameters.kind = "dict"
     /\ FailingFilters(event) = <<>>
     /\ Given(event, "start_time") # None
     /\ Given(event, "end_time") # None
     /\ str_lt(Given(event, "end_time")[1], Given(event, "start_time")[1])) =>
        /\ response.statusCode # 400
        /\ Len(calls) = 1
        /\ calls[1].KeyConditionExpression.range
             = <<"between", Given(event, "start_time"), Given(event, "end_time")>>

\* C29 witness: GET /rooms/{room_id} with start_time ten hours after end_time,
\* answered 200 after a query between the later and the earlier instant
C29_Witness ==
    /\ pc = "done"
    /\ event.httpMethod = "GET"
    /\ event.resource = "/rooms/{room_id}"
    /\ PathValid(event)
    /\ Given(event, "start_time") = T2
    /\ Given(event, "end_time") = T1
    /\ response.statusCode = 200
    /\ calls[1].KeyConditionExpression.range = <<"between", T2, T1>>

\* The filters the route accepts that the event gives with the empty string
EmptyFilters(ev) == {f \in AcceptedFilters(ev.resource) : Given(ev, f) = Str("")}

\* C30: on a route that accepts query filters, when the path identifiers are
\* valid and a filter the route accepts is present with the empty string as
\* its value, the answer is 400 with the detail "Invalid <name>: " for that
\* filter and the store is not called; and no request to the store ever
\* carries the empty string as a time bound or as the device_status tested.
C30_EmptyFilterIs400 ==
    pc = "done" =>
        /\ (/\ event.httpMethod = "GET"
            /\ event.resource \in FilterTemplates
            /\ PathValid(event)
            /\ event.queryStringParameters.kind = "dict"
            /\ EmptyFilters(event) # {}) =>
              /\ response.statusCode = 400
              /\ \A f \in EmptyFilters(event) :
                    \E i \in 1..Len(response.body.details) :
                        response.body.details[i] = InvalidMessage(f, Str(""))
              /\ calls = <<>>
        /\ \A k \in 1..Len(calls) :
              /\ calls[k].KeyConditionExpression.range[2] # Str("")
              /\ calls[k].KeyConditionExpression.range[3] # Str("")
              /\ \A i \in 1..Len(calls[k].FilterExpression) :
                    calls[k].FilterExpression[i] # <<"device_status", Str("")>>

\* C30 witness: GET /devices/{device_id} with end_time = "" and nothing else,
\* answered 400 with the one detail "Invalid end_time: " and no store call
C30_Witness ==
    /\ pc = "done"
    /\ event.httpMethod = "GET"
    /\ event.resource = "/devices/{device_id}"
    /\ PathValid(event)
    /\ event.queryStringParameters = [kind |-> "dict", items |-> << <<"end_time", Str("")>> >>]
    /\ response.statusCode = 400
    /\ response.body.details = <<Str("Invalid end_time: ")>>
    /\ calls = <<>>
====
